---- MODULE Spec2Model ----
(***************************************************************************)
(* Capital ledger (StrategyAllocator) and configuration reconciliation     *)
(* (reloadStrategies) of the kalshi-trading engine.                        *)
(*                                                                         *)
(* Numbers.  Cash amounts are integer cents.  allocationPct is a fraction  *)
(* held in units of 1/PctScale (1e-4, the epsilon of the source), so that  *)
(* 1.0001 is OnePlusEps and floor(totalCash * pct) is an integer floor     *)
(* division.  Sums of fractions are exact here; the source adds IEEE       *)
(* doubles.                                                                *)
(*                                                                         *)
(* Maps.  A JavaScript Map is a function whose DOMAIN is the key set.      *)
(* Insertion order is not kept: no result of the modelled operations       *)
(* depends on it.  lastActivityAt, errorCount, lastError, order.status and *)
(* order.createdAt are not modelled: no modelled operation reads them.     *)
(***************************************************************************)
EXTENDS Integers, Sequences, FiniteSets, TLC

VARIABLES
    totalCash,   \* StrategyAllocator.totalCash
    configs,     \* StrategyAllocator.configs : id -> StrategyConfig
    states,      \* StrategyAllocator.states  : id -> StrategyState
    orders,      \* StrategyAllocator.orders  : orderId -> TrackedOrder
    file,        \* the content of the strategies file: the desired configs
    last,        \* the call that produced this state, its arguments and outcome
    nCalls,      \* the number of calls made since construction
    http,        \* the order-placement requests of the HTTP server, by orderId
    snap,        \* the value the last getSnapshot call returned
    sock         \* KalshiWebSocket: its fields, the sockets it made, its timers

ledgerVars == <<totalCash, configs, states, orders>>
otherVars == <<file, http, snap, sock>>
vars == <<totalCash, configs, states, orders, file, last, nCalls, http, snap,
          sock>>

(***************************************************************************)
(* Program constants                                                       *)
(***************************************************************************)
PctScale == 10000      \* one unit of allocationPct is 1e-4
OnePlusEps == 10001    \* the literal 1.0001
ReloadEps == 1         \* the literal 0.0001 of reloadStrategies

(***************************************************************************)
(* Bounds of the explored inputs                                           *)
(***************************************************************************)
MaxCalls == 5          \* ledger calls explored from construction
MaxReloadCalls == 4    \* file writes, passes and reservations explored by SpecReload
MaxScenarioCalls == 8  \* ledger calls explored by SpecScenario
MaxSocketSteps == 8    \* calls, timer callbacks and socket events explored by SpecSocket

Ids == {"A", "B"}
OrderIds == {"o1", "o2"}
Tickers == {"T1"}
Sides == {"yes", "no"}
DraftSides == {"yes"}
MarkPrices == {10, 30}
Actions == {"buy", "sell"}
PctValues == {3000, 7001}
CashValues == {0, 105}
InitialCash == 105
ReservePrices == {20}
Prices == {10, 20, 30}
Counts == {1, 2}
Fees == {1}

(***************************************************************************)
(* Map helpers                                                             *)
(***************************************************************************)
EmptyMap == [k \in {} |-> 0]
Put(m, k, v) == [x \in (DOMAIN m) \cup {k} |-> IF x = k THEN v ELSE m[x]]
Del(m, k) == [x \in (DOMAIN m) \ {k} |-> m[x]]
Max(a, b) == IF a >= b THEN a ELSE b

RECURSIVE SumOver(_, _)
SumOver(m, S) ==
    IF S = {} THEN 0
    ELSE LET k == CHOOSE x \in S : TRUE IN m[k] + SumOver(m, S \ {k})

(***************************************************************************)
(* The ledger as one value, for the operations written as functions        *)
(***************************************************************************)
Ledger == [totalCash |-> totalCash, configs |-> configs,
           states |-> states, orders |-> orders]

Ok(L) == [L |-> L, res |-> "ok"]
Thrown(L) == [L |-> L, res |-> "throw"]
ReturnedFalse(L) == [L |-> L, res |-> "false"]
\* a variant that raises an error for an unknown order
IgnoredWithError(L) == [L |-> L, res |-> "throw"]
Ignored(L) == [L |-> L, res |-> "unknown"]

\* totalAllocationPct(): the sum of allocationPct over the configs
totalAllocationPct(L) ==
    SumOver([id \in DOMAIN L.configs |-> L.configs[id].allocationPct],
            DOMAIN L.configs)

\* a variant that rounds up
CeilAlloc(total, pct) == 0 - ((0 - total * pct) \div PctScale)

\* Math.floor(totalCash * allocationPct)
FloorAlloc(total, pct) == (total * pct) \div PctScale

\* a variant that forgets the allocation of the other strategies
AllocationFitsAlone(otherAlloc, pct) == ~(pct > OnePlusEps)

\* a variant without the tolerance of 1e-4
AllocationFitsStrict(otherAlloc, pct) == ~(otherAlloc + pct > PctScale)

\* the admission test of addStrategy and reallocate: not (x + pct > 1.0001)
AllocationFits(otherAlloc, pct) == ~(otherAlloc + pct > OnePlusEps)

\* a variant that starts every strategy idle
NewStateAlwaysIdle(config, allocatedCash) ==
    [strategyId |-> config.id,
     status |-> "idle",
     allocatedCash |-> allocatedCash,
     availableCash |-> allocatedCash,
     lockedInOrders |-> 0,
     positions |-> EmptyMap,
     realizedPnl |-> 0,
     unrealizedPnl |-> 0,
     fees |-> 0,
     ordersPlaced |-> 0,
     ordersFilled |-> 0,
     ordersCancelled |-> 0]

NewState(config, allocatedCash) ==
    [strategyId |-> config.id,
     status |-> IF config.enabled THEN "idle" ELSE "paused",
     allocatedCash |-> allocatedCash,
     availableCash |-> allocatedCash,
     lockedInOrders |-> 0,
     positions |-> EmptyMap,
     realizedPnl |-> 0,
     unrealizedPnl |-> 0,
     fees |-> 0,
     ordersPlaced |-> 0,
     ordersFilled |-> 0,
     ordersCancelled |-> 0]

addStrategy(L, config) ==
    IF config.id \in DOMAIN L.configs THEN Thrown(L)
    ELSE IF ~AllocationFits(totalAllocationPct(L), config.allocationPct)
    THEN Thrown(L)
    ELSE Ok([L EXCEPT
            !.configs = Put(L.configs, config.id, config),
            !.states = Put(L.states, config.id,
                           NewState(config, FloorAlloc(L.totalCash, config.allocationPct)))])

\* a variant that forgets the open positions
RemovalBlockedByOrdersOnly(state) == state.lockedInOrders > 0

\* the guard of removeStrategy: positions.size > 0, or lockedInOrders > 0
RemovalBlocked(state) ==
    \/ DOMAIN state.positions # {}
    \/ state.lockedInOrders > 0

\* a variant that deletes the config and keeps the state
removeStrategyConfigOnly(L, strategyId) ==
    IF strategyId \notin DOMAIN L.states THEN Thrown(L)
    ELSE IF RemovalBlocked(L.states[strategyId]) THEN Thrown(L)
    ELSE Ok([L EXCEPT !.configs = Del(L.configs, strategyId)])

removeStrategy(L, strategyId) ==
    IF strategyId \notin DOMAIN L.states THEN Thrown(L)
    ELSE IF RemovalBlocked(L.states[strategyId]) THEN Thrown(L)
    ELSE Ok([L EXCEPT !.configs = Del(L.configs, strategyId),
                      !.states = Del(L.states, strategyId)])

\* a variant without the clamp at zero
RebalanceUnclamped(state, newAlloc) ==
    [state EXCEPT
        !.allocatedCash = newAlloc,
        !.availableCash = state.availableCash + (newAlloc - state.allocatedCash)]

\* the body of the loop of updateTotalCash, and the tail of reallocate
Rebalance(state, newAlloc) ==
    [state EXCEPT
        !.allocatedCash = newAlloc,
        !.availableCash = Max(0, state.availableCash + (newAlloc - state.allocatedCash))]

\* a variant that stores the total and leaves the strategies as they are
updateTotalCashOnly(L, newTotalCents) == Ok([L EXCEPT !.totalCash = newTotalCents])

updateTotalCash(L, newTotalCents) ==
    Ok([L EXCEPT
        !.totalCash = newTotalCents,
        !.states = [id \in DOMAIN L.states |->
            IF id \in DOMAIN L.configs
            THEN Rebalance(L.states[id],
                           FloorAlloc(newTotalCents, L.configs[id].allocationPct))
            ELSE L.states[id]]])

reallocate(L, strategyId, newPct) ==
    IF strategyId \notin DOMAIN L.configs \/ strategyId \notin DOMAIN L.states
    THEN Thrown(L)
    ELSE IF ~AllocationFits(totalAllocationPct(L) - L.configs[strategyId].allocationPct,
                            newPct)
    THEN Thrown(L)
    ELSE Ok([L EXCEPT
            !.configs[strategyId].allocationPct = newPct,
            !.states[strategyId] =
                Rebalance(L.states[strategyId], FloorAlloc(L.totalCash, newPct))])

(***************************************************************************)
(* updateStrategyConfig: `partial` carries the field names it provides in  *)
(* partial.keys (Object.keys) and their values                             *)
(***************************************************************************)
ConfigFields == {"enabled", "params", "name", "type"}

\* a variant that pauses a strategy in error too
StatusAfterEnableForced(status, enabled) ==
    IF ~enabled THEN "paused"
    ELSE IF status = "paused" THEN "idle"
    ELSE status

\* a variant that never leaves paused
StatusAfterDisableOnly(status, enabled) ==
    IF ~enabled /\ status # "error" THEN "paused"
    ELSE status

\* the status after partial.enabled is applied
StatusAfterEnable(status, enabled) ==
    IF ~enabled /\ status # "error" THEN "paused"
    ELSE IF enabled /\ status = "paused" THEN "idle"
    ELSE status

updateStrategyConfig(L, id, partial) ==
    IF id \notin DOMAIN L.configs \/ id \notin DOMAIN L.states THEN Thrown(L)
    ELSE LET c == L.configs[id]
             s == L.states[id]
         IN Ok([L EXCEPT
                !.configs[id] =
                    [c EXCEPT
                        !.enabled = IF "enabled" \in partial.keys
                                    THEN partial.enabled ELSE c.enabled,
                        !.params = IF "params" \in partial.keys
                                   THEN partial.params ELSE c.params,
                        !.name = IF "name" \in partial.keys
                                 THEN partial.name ELSE c.name,
                        !.type = IF "type" \in partial.keys
                                 THEN partial.type ELSE c.type],
                !.states[id].status =
                    IF "enabled" \in partial.keys
                    THEN StatusAfterEnable(s.status, partial.enabled)
                    ELSE s.status])

(***************************************************************************)
(* Order lifecycle                                                         *)
(***************************************************************************)
OrderCost(order) == order.count * order.price

\* a variant that tests the allocation instead of the available cash
InsufficientAllocation(state, order) ==
    order.action = "buy" /\ state.allocatedCash < OrderCost(order)

\* a variant that tests the available cash for sells too
InsufficientFundsForAnyAction(state, order) ==
    state.availableCash < OrderCost(order)

\* the rejection test of reserveForOrder
InsufficientFunds(state, order) ==
    order.action = "buy" /\ state.availableCash < OrderCost(order)

\* what reserveForOrder stores: { ...order, strategyId }
Tracked(strategyId, order) ==
    [strategyId |-> strategyId, ticker |-> order.ticker, side |-> order.side,
     action |-> order.action, count |-> order.count, price |-> order.price]

\* a variant that debits availableCash and does not credit lockedInOrders
reserveForOrderDebitOnly(L, strategyId, order) ==
    IF strategyId \notin DOMAIN L.states THEN Thrown(L)
    ELSE LET state == L.states[strategyId]
         IN IF InsufficientFunds(state, order) THEN ReturnedFalse(L)
            ELSE Ok([L EXCEPT
                    !.states[strategyId] =
                        [state EXCEPT
                            !.availableCash = IF order.action = "buy"
                                              THEN state.availableCash - OrderCost(order)
                                              ELSE state.availableCash,
                            !.ordersPlaced = state.ordersPlaced + 1],
                    !.orders = Put(L.orders, order.orderId,
                                   Tracked(strategyId, order))])

reserveForOrder(L, strategyId, order) ==
    IF strategyId \notin DOMAIN L.states THEN Thrown(L)
    ELSE LET state == L.states[strategyId]
             cost == OrderCost(order)
         IN IF InsufficientFunds(state, order) THEN ReturnedFalse(L)
            ELSE Ok([L EXCEPT
                    !.states[strategyId] =
                        [state EXCEPT
                            !.availableCash = IF order.action = "buy"
                                              THEN state.availableCash - cost
                                              ELSE state.availableCash,
                            !.lockedInOrders = IF order.action = "buy"
                                               THEN state.lockedInOrders + cost
                                               ELSE state.lockedInOrders,
                            !.ordersPlaced = state.ordersPlaced + 1],
                    !.orders = Put(L.orders, order.orderId,
                                   Tracked(strategyId, order))])

\* Math.round of num / den for den > 0: floor(num / den + 1/2)
RoundDiv(num, den) == (2 * num + den) \div (2 * den)

\* the amount a buy fill unlocks: fillCount * tracked.price
ReservedCost(tracked, fillCount) == fillCount * tracked.price

\* a variant that settles the difference in both directions
FillSettled(tracked, fillPrice, fillCount) == (tracked.price - fillPrice) * fillCount

\* the refund of a buy fill below the reserved price
FillRefund(tracked, fillPrice, fillCount) ==
    IF fillPrice < tracked.price THEN (tracked.price - fillPrice) * fillCount ELSE 0

\* the position after a buy fill
BuyPosition(positions, tracked, fillPrice, fillCount) ==
    IF tracked.ticker \in DOMAIN positions
       /\ positions[tracked.ticker].side = tracked.side
    THEN LET existing == positions[tracked.ticker]
             totalQty == existing.quantity + fillCount
         IN Put(positions, tracked.ticker,
                [existing EXCEPT
                    !.avgCostBasis =
                        RoundDiv(existing.avgCostBasis * existing.quantity
                                 + fillPrice * fillCount, totalQty),
                    !.quantity = totalQty])
    ELSE Put(positions, tracked.ticker,
             [ticker |-> tracked.ticker, side |-> tracked.side,
              quantity |-> fillCount, avgCostBasis |-> fillPrice,
              currentPrice |-> fillPrice])

\* a variant that keeps a position that was sold out
SellPositionKept(positions, tracked, fillCount) ==
    IF tracked.ticker \in DOMAIN positions
    THEN LET pos == positions[tracked.ticker]
         IN Put(positions, tracked.ticker,
                [pos EXCEPT !.quantity = pos.quantity - fillCount])
    ELSE positions

\* the positions after a sell fill
SellPosition(positions, tracked, fillCount) ==
    IF tracked.ticker \in DOMAIN positions
    THEN LET pos == positions[tracked.ticker]
         IN IF pos.quantity - fillCount <= 0
            THEN Del(positions, tracked.ticker)
            ELSE Put(positions, tracked.ticker,
                     [pos EXCEPT !.quantity = pos.quantity - fillCount])
    ELSE positions

\* a variant that books the proceeds as profit
SellProceeds(positions, tracked, fillPrice, fillCount) ==
    IF tracked.ticker \in DOMAIN positions THEN fillPrice * fillCount ELSE 0

\* the realized P&L of a sell fill
SellPnl(positions, tracked, fillPrice, fillCount) ==
    IF tracked.ticker \in DOMAIN positions
    THEN (fillPrice - positions[tracked.ticker].avgCostBasis) * fillCount
    ELSE 0

onOrderFilled(L, orderId, fillPrice, fillCount, fee) ==
    IF orderId \notin DOMAIN L.orders THEN Ignored(L)
    ELSE LET tracked == L.orders[orderId] IN
         IF tracked.strategyId \notin DOMAIN L.states THEN Thrown(L)
         ELSE LET state == L.states[tracked.strategyId]
                  cost == fillCount * fillPrice
                  filled ==
                    IF tracked.action = "buy"
                    THEN [state EXCEPT
                            !.lockedInOrders =
                                Max(0, state.lockedInOrders
                                       - ReservedCost(tracked, fillCount)),
                            !.availableCash =
                                state.availableCash
                                + FillRefund(tracked, fillPrice, fillCount),
                            !.positions =
                                BuyPosition(state.positions, tracked,
                                            fillPrice, fillCount)]
                    ELSE [state EXCEPT
                            !.realizedPnl =
                                state.realizedPnl
                                + SellPnl(state.positions, tracked,
                                          fillPrice, fillCount),
                            !.positions =
                                SellPosition(state.positions, tracked, fillCount),
                            !.availableCash = state.availableCash + cost]
              IN Ok([L EXCEPT
                    !.states[tracked.strategyId] =
                        [filled EXCEPT !.fees = filled.fees + fee,
                                       !.ordersFilled = filled.ordersFilled + 1]])

\* a variant that credits the cash and keeps the lock
ReleasedStillLocked(state, tracked) ==
    IF tracked.action = "buy"
    THEN [state EXCEPT !.availableCash = state.availableCash + OrderCost(tracked)]
    ELSE state

\* the state of the owning strategy after a cancellation
Released(state, tracked) ==
    IF tracked.action = "buy"
    THEN [state EXCEPT
            !.lockedInOrders = Max(0, state.lockedInOrders - OrderCost(tracked)),
            !.availableCash = state.availableCash + OrderCost(tracked)]
    ELSE state

\* a variant that keeps a cancelled sell order in the table
onOrderCancelledBuysOnly(L, orderId) ==
    IF orderId \notin DOMAIN L.orders THEN Ignored(L)
    ELSE LET tracked == L.orders[orderId] IN
         IF tracked.strategyId \notin DOMAIN L.states THEN Thrown(L)
         ELSE LET state == Released(L.states[tracked.strategyId], tracked)
              IN Ok([L EXCEPT
                    !.states[tracked.strategyId] =
                        [state EXCEPT !.ordersCancelled = state.ordersCancelled + 1],
                    !.orders = IF tracked.action = "buy" THEN Del(L.orders, orderId)
                               ELSE L.orders])

\* a variant that releases the cost of the order in every strategy
onOrderCancelledForAll(L, orderId) ==
    IF orderId \notin DOMAIN L.orders THEN Ignored(L)
    ELSE LET tracked == L.orders[orderId] IN
         IF tracked.strategyId \notin DOMAIN L.states THEN Thrown(L)
         ELSE Ok([L EXCEPT
                    !.states = [id \in DOMAIN L.states |->
                        LET state == Released(L.states[id], tracked)
                        IN [state EXCEPT
                                !.ordersCancelled = state.ordersCancelled + 1]],
                    !.orders = Del(L.orders, orderId)])

onOrderCancelled(L, orderId) ==
    IF orderId \notin DOMAIN L.orders THEN Ignored(L)
    ELSE LET tracked == L.orders[orderId] IN
         IF tracked.strategyId \notin DOMAIN L.states THEN Thrown(L)
         ELSE LET state == Released(L.states[tracked.strategyId], tracked)
              IN Ok([L EXCEPT
                    !.states[tracked.strategyId] =
                        [state EXCEPT !.ordersCancelled = state.ordersCancelled + 1],
                    !.orders = Del(L.orders, orderId)])

(***************************************************************************)
(* Price updates                                                           *)
(***************************************************************************)
\* recalcUnrealizedPnl for one strategy
Unrealized(positions) ==
    SumOver([t \in DOMAIN positions |->
                (positions[t].currentPrice - positions[t].avgCostBasis)
                * positions[t].quantity],
            DOMAIN positions)

\* a variant that marks the positions and keeps the old unrealizedPnl
updatePriceOnly(L, ticker, price) ==
    Ok([L EXCEPT !.states = [id \in DOMAIN L.states |->
        [L.states[id] EXCEPT !.positions =
            [t \in DOMAIN L.states[id].positions |->
                IF t = ticker
                THEN [L.states[id].positions[t] EXCEPT !.currentPrice = price]
                ELSE L.states[id].positions[t]]]]])

updatePrice(L, ticker, price) ==
    Ok([L EXCEPT !.states = [id \in DOMAIN L.states |->
        LET marked == [t \in DOMAIN L.states[id].positions |->
                         IF t = ticker
                         THEN [L.states[id].positions[t] EXCEPT !.currentPrice = price]
                         ELSE L.states[id].positions[t]]
        IN [L.states[id] EXCEPT !.positions = marked,
                                !.unrealizedPnl = Unrealized(marked)]]])

(***************************************************************************)
(* getSnapshot: `strategies` is held as a map from id to entry, and the    *)
(* positions of an entry as a map from ticker to position.                 *)
(***************************************************************************)
SnapshotPosition(pos) ==
    [ticker |-> pos.ticker, side |-> pos.side, quantity |-> pos.quantity,
     avgCostBasis |-> pos.avgCostBasis, currentPrice |-> pos.currentPrice,
     unrealizedPnl |-> (pos.currentPrice - pos.avgCostBasis) * pos.quantity]

SnapshotEntry(config, state) ==
    [id |-> config.id, name |-> config.name, type |-> config.type,
     enabled |-> config.enabled, allocationPct |-> config.allocationPct,
     allocatedCash |-> state.allocatedCash,
     availableCash |-> state.availableCash,
     lockedInOrders |-> state.lockedInOrders,
     unrealizedPnl |-> state.unrealizedPnl,
     realizedPnl |-> state.realizedPnl,
     fees |-> state.fees,
     positionCount |-> Cardinality(DOMAIN state.positions),
     positions |-> [t \in DOMAIN state.positions |->
                        SnapshotPosition(state.positions[t])],
     ordersPlaced |-> state.ordersPlaced,
     ordersFilled |-> state.ordersFilled,
     ordersCancelled |-> state.ordersCancelled,
     status |-> state.status]

\* a variant that subtracts the available cash
UnallocatedAvailable(total, strategies) ==
    total - SumOver([id \in DOMAIN strategies |-> strategies[id].availableCash],
                    DOMAIN strategies)

\* this.totalCash - allocatedTotal
Unallocated(total, strategies) ==
    total - SumOver([id \in DOMAIN strategies |-> strategies[id].allocatedCash],
                    DOMAIN strategies)

getSnapshot(L) ==
    LET strategies == [id \in DOMAIN L.configs |->
                         SnapshotEntry(L.configs[id], L.states[id])]
    IN [totalCash |-> L.totalCash,
        unallocatedCash |-> Unallocated(L.totalCash, strategies),
        strategies |-> strategies]

(***************************************************************************)
(* reloadStrategies: one pass over the desired list `newConfigs`.  `calls` *)
(* is the list of ledger calls the pass made, each with its outcome.  An   *)
(* exception that the pass does not catch ends it (res = "throw") and      *)
(* leaves the ledger as the calls made so far left it.                     *)
(***************************************************************************)
Abs(x) == IF x < 0 THEN 0 - x ELSE x
Call(name, id, res) == [call |-> name, id |-> id, res |-> res, keys |-> {}]
\* an updateStrategyConfig call and the field names of its `changes` argument
ConfigCall(id, res, changes) ==
    [call |-> "updateStrategyConfig", id |-> id, res |-> res, keys |-> changes.keys]
Pass(L, res, calls) == [L |-> L, res |-> res, calls |-> calls]
IdsOf(newConfigs) == {newConfigs[i].id : i \in 1..Len(newConfigs)}

\* "Add new strategies": addStrategy is not inside a try block
RECURSIVE AddStep(_, _, _, _, _)
AddStep(L, newConfigs, currentIds, i, calls) ==
    IF i > Len(newConfigs) THEN Pass(L, "ok", calls)
    ELSE IF newConfigs[i].id \in currentIds
    THEN AddStep(L, newConfigs, currentIds, i + 1, calls)
    ELSE LET R == addStrategy(L, newConfigs[i])
             log == Append(calls, Call("addStrategy", newConfigs[i].id, R.res))
         IN IF R.res = "throw" THEN Pass(L, "throw", log)
            ELSE AddStep(R.L, newConfigs, currentIds, i + 1, log)

\* "Remove deleted strategies (only if safe)": removeStrategy is inside try/catch
RECURSIVE RemoveStep(_, _, _)
RemoveStep(L, toRemove, calls) ==
    IF toRemove = {} THEN Pass(L, "ok", calls)
    ELSE LET id == CHOOSE x \in toRemove : TRUE
             R == removeStrategy(L, id)
         IN RemoveStep(R.L, toRemove \ {id},
                       Append(calls, Call("removeStrategy", id, R.res)))

\* JSON.stringify of a params object: its entries in key insertion order
JsonStringify(params) ==
    [i \in 1..Len(params.keys) |-> <<params.keys[i], params.val[params.keys[i]]>>]

\* the changed fields of the update step
Changes(current, config) ==
    [keys |-> {f \in {"enabled", "name", "type"} : current[f] # config[f]}
              \cup (IF JsonStringify(current.params) # JsonStringify(config.params)
                    THEN {"params"} ELSE {}),
     enabled |-> config.enabled, params |-> config.params,
     name |-> config.name, type |-> config.type]

\* whether the update step reallocates
PctChanged(current, config) ==
    Abs(current.allocationPct - config.allocationPct) > ReloadEps

\* "Update changed strategies": neither call is inside a try block
RECURSIVE UpdateStep(_, _, _, _, _)
UpdateStep(L, newConfigs, currentIds, i, calls) ==
    IF i > Len(newConfigs) THEN Pass(L, "ok", calls)
    ELSE IF newConfigs[i].id \notin currentIds
    THEN UpdateStep(L, newConfigs, currentIds, i + 1, calls)
    ELSE IF newConfigs[i].id \notin DOMAIN L.configs
    THEN Pass(L, "throw", calls)
    ELSE LET config == newConfigs[i]
             current == L.configs[config.id]
             R1 == IF PctChanged(current, config)
                   THEN reallocate(L, config.id, config.allocationPct)
                   ELSE Ok(L)
             log1 == IF PctChanged(current, config)
                     THEN Append(calls, Call("reallocate", config.id, R1.res))
                     ELSE calls
         IN IF R1.res = "throw" THEN Pass(L, "throw", log1)
            ELSE LET changes == Changes(current, config)
                     R2 == IF changes.keys # {}
                           THEN updateStrategyConfig(R1.L, config.id, changes)
                           ELSE Ok(R1.L)
                     log2 == IF changes.keys # {}
                             THEN Append(log1, ConfigCall(config.id, R2.res,
                                                          changes))
                             ELSE log1
                 IN IF R2.res = "throw" THEN Pass(R1.L, "throw", log2)
                    ELSE UpdateStep(R2.L, newConfigs, currentIds, i + 1, log2)

\* a variant that a refused removal ends
reloadStrategiesUntilRefusal(L, newConfigs) ==
    LET newIds == IdsOf(newConfigs)
        currentIds == DOMAIN L.configs
        added == AddStep(L, newConfigs, currentIds, 1, <<>>)
    IN IF added.res = "throw" THEN added
       ELSE LET removed == RemoveStep(added.L, currentIds \ newIds, added.calls)
            IN IF \E k \in 1..Len(removed.calls) :
                    /\ removed.calls[k].call = "removeStrategy"
                    /\ removed.calls[k].res = "throw"
               THEN Pass(removed.L, "throw", removed.calls)
               ELSE UpdateStep(removed.L, newConfigs, currentIds, 1, removed.calls)

\* a variant that removes before it adds
reloadStrategiesRemovingFirst(L, newConfigs) ==
    LET newIds == IdsOf(newConfigs)
        currentIds == DOMAIN L.configs
        removed == RemoveStep(L, currentIds \ newIds, <<>>)
        added == AddStep(removed.L, newConfigs, currentIds, 1, removed.calls)
    IN IF added.res = "throw" THEN added
       ELSE UpdateStep(added.L, newConfigs, currentIds, 1, added.calls)

reloadStrategies(L, newConfigs) ==
    LET newIds == IdsOf(newConfigs)
        currentIds == DOMAIN L.configs
        added == AddStep(L, newConfigs, currentIds, 1, <<>>)
    IN IF added.res = "throw" THEN added
       ELSE LET removed == RemoveStep(added.L, currentIds \ newIds, added.calls)
            IN UpdateStep(removed.L, newConfigs, currentIds, 1, removed.calls)

(***************************************************************************)
(* Inputs                                                                  *)
(***************************************************************************)
\* params objects: ParamsXY and ParamsYX have the same entries in another key order
ParamsXY == [keys |-> <<"x", "y">>, val |-> [k \in {"x", "y"} |-> 1]]
ParamsYX == [keys |-> <<"y", "x">>, val |-> [k \in {"x", "y"} |-> 1]]
ParamsX == [keys |-> <<"x">>, val |-> [k \in {"x"} |-> 1]]

Config(id, pct, name, type, enabled, params) ==
    [id |-> id, name |-> name, type |-> type, enabled |-> enabled,
     allocationPct |-> pct, params |-> params]

\* the configs the ledger operations are explored with
LedgerConfigs == {Config(id, pct, "n1", "t1", TRUE, ParamsXY) :
                    id \in Ids, pct \in PctValues}

OrderDrafts ==
    [orderId : OrderIds, ticker : Tickers, side : DraftSides, action : Actions,
     count : Counts, price : ReservePrices]

(***************************************************************************)
(* Actions: one per call of the ledger.  `last` names the call.            *)
(***************************************************************************)
NoCall ==
    [op |-> "new", res |-> "ok", sid |-> "-", oid |-> "-", action |-> "-",
     cost |-> 0, fillPrice |-> 0, fillCount |-> 0, fee |-> 0,
     avail0 |-> 0, locked0 |-> 0, pct |-> 0, cash |-> 0, calls |-> <<>>,
     partial |-> [keys |-> {}, enabled |-> FALSE, params |-> ParamsX,
                  name |-> "-", type |-> "-"],
     ticker |-> "-", price |-> 0]

\* the ledger after a call
Effect(R) ==
    /\ nCalls' = nCalls + 1
    /\ totalCash' = R.L.totalCash
    /\ configs' = R.L.configs
    /\ states' = R.L.states
    /\ orders' = R.L.orders

Apply(R) ==
    /\ nCalls < MaxCalls
    /\ Effect(R)

\* no request was received; no snapshot was taken
NoRequests ==
    [oid \in OrderIds |-> [pc |-> "idle", sid |-> "-", action |-> "-", cost |-> 0,
                           del |-> "-"]]
NoSnapshot == [totalCash |-> 0, unallocatedCash |-> 0, strategies |-> EmptyMap]

\* new KalshiWebSocket(config): ws = 0 stands for null; `sockets` are the
\* readyStates of the WebSocket objects made so far, `timers` the pending
\* setTimeout callbacks of scheduleReconnect; `released` tells that
\* disconnect() was called and connect() was not called since
NoSocket ==
    [state |-> "disconnected", reconnectAttempt |-> 0, ws |-> 0,
     pingInterval |-> FALSE, sockets |-> <<>>, timers |-> 0, released |-> FALSE]

Init ==
    /\ totalCash = InitialCash
    /\ configs = EmptyMap
    /\ states = EmptyMap
    /\ orders = EmptyMap
    /\ file = <<>>
    /\ last = NoCall
    /\ nCalls = 0
    /\ http = NoRequests
    /\ snap = NoSnapshot
    /\ sock = NoSocket

AddStrategyCall(config) ==
    LET R == addStrategy(Ledger, config)
    IN /\ Effect(R)
       /\ last' = [NoCall EXCEPT !.op = "addStrategy", !.res = R.res,
                                 !.sid = config.id,
                                 !.pct = config.allocationPct]

AddStrategy(config) ==
    /\ nCalls < MaxCalls
    /\ AddStrategyCall(config)
    /\ UNCHANGED otherVars

RemoveStrategy(strategyId) ==
    LET R == removeStrategy(Ledger, strategyId)
    IN /\ Apply(R)
       /\ last' = [NoCall EXCEPT !.op = "removeStrategy", !.res = R.res,
                                 !.sid = strategyId]
       /\ UNCHANGED otherVars

UpdateTotalCash(newTotalCents) ==
    LET R == updateTotalCash(Ledger, newTotalCents)
    IN /\ Apply(R)
       /\ last' = [NoCall EXCEPT !.op = "updateTotalCash", !.res = R.res,
                                 !.cash = newTotalCents]
       /\ UNCHANGED otherVars

Reallocate(strategyId, newPct) ==
    LET R == reallocate(Ledger, strategyId, newPct)
    IN /\ Apply(R)
       /\ last' = [NoCall EXCEPT !.op = "reallocate", !.res = R.res,
                                 !.sid = strategyId, !.pct = newPct]
       /\ UNCHANGED otherVars

ReserveForOrderCall(strategyId, order) ==
    LET R == reserveForOrder(Ledger, strategyId, order)
        known == strategyId \in DOMAIN states
    IN /\ Effect(R)
       /\ last' = [NoCall EXCEPT
                    !.op = "reserveForOrder", !.res = R.res,
                    !.sid = strategyId, !.oid = order.orderId,
                    !.action = order.action, !.cost = OrderCost(order),
                    !.avail0 = IF known THEN states[strategyId].availableCash ELSE 0,
                    !.locked0 = IF known THEN states[strategyId].lockedInOrders ELSE 0]

ReserveForOrder(strategyId, order) ==
    /\ nCalls < MaxCalls
    /\ ReserveForOrderCall(strategyId, order)
    /\ UNCHANGED otherVars

\* the strategy that owns a tracked order, "-" for an unknown order
OwnerOf(orderId) ==
    IF orderId \in DOMAIN orders THEN orders[orderId].strategyId ELSE "-"

OnOrderFilledCall(orderId, fillPrice, fillCount, fee) ==
    LET R == onOrderFilled(Ledger, orderId, fillPrice, fillCount, fee)
    IN /\ Effect(R)
       /\ last' = [NoCall EXCEPT
                    !.op = "onOrderFilled", !.res = R.res,
                    !.sid = OwnerOf(orderId), !.oid = orderId,
                    !.action = IF orderId \in DOMAIN orders
                               THEN orders[orderId].action ELSE "-",
                    !.fillPrice = fillPrice, !.fillCount = fillCount, !.fee = fee]

OnOrderFilled(orderId, fillPrice, fillCount, fee) ==
    /\ nCalls < MaxCalls
    /\ OnOrderFilledCall(orderId, fillPrice, fillCount, fee)
    /\ UNCHANGED otherVars

OnOrderCancelledCall(orderId) ==
    LET R == onOrderCancelled(Ledger, orderId)
    IN /\ Effect(R)
       /\ last' = [NoCall EXCEPT
                    !.op = "onOrderCancelled", !.res = R.res,
                    !.sid = OwnerOf(orderId), !.oid = orderId,
                    !.action = IF orderId \in DOMAIN orders
                               THEN orders[orderId].action ELSE "-"]

OnOrderCancelled(orderId) ==
    /\ nCalls < MaxCalls
    /\ OnOrderCancelledCall(orderId)
    /\ UNCHANGED otherVars

UpdatePriceCall(ticker, price) ==
    LET R == updatePrice(Ledger, ticker, price)
    IN /\ Effect(R)
       /\ last' = [NoCall EXCEPT !.op = "updatePrice", !.res = R.res,
                                 !.ticker = ticker, !.price = price]

UpdatePrice(ticker, price) ==
    /\ nCalls < MaxCalls
    /\ UpdatePriceCall(ticker, price)
    /\ UNCHANGED otherVars

Next ==
    \/ \E config \in LedgerConfigs : AddStrategy(config)
    \/ \E id \in Ids : RemoveStrategy(id)
    \/ \E cash \in CashValues : UpdateTotalCash(cash)
    \/ \E id \in Ids, pct \in PctValues : Reallocate(id, pct)
    \/ \E id \in Ids, order \in OrderDrafts : ReserveForOrder(id, order)
    \/ \E oid \in OrderIds, fillPrice \in Prices, fillCount \in Counts, fee \in Fees :
            OnOrderFilled(oid, fillPrice, fillCount, fee)
    \/ \E oid \in OrderIds : OnOrderCancelled(oid)
    \/ \E ticker \in Tickers, price \in MarkPrices : UpdatePrice(ticker, price)

Spec == Init /\ [][Next]_vars

(***************************************************************************)
(* Reconciliation: the strategies file is rewritten by its owner and read  *)
(* by reloadStrategies; strategies get capital locked between passes.      *)
(***************************************************************************)
\* name, type, enabled, params of the desired configs
Profiles ==
    {[name |-> "n1", type |-> "t1", enabled |-> TRUE, params |-> ParamsXY],
     [name |-> "n2", type |-> "t2", enabled |-> FALSE, params |-> ParamsX],
     [name |-> "n1", type |-> "t1", enabled |-> TRUE, params |-> ParamsYX]}

DesiredConfigs ==
    {Config(id, pct, p.name, p.type, p.enabled, p.params) :
        id \in Ids, pct \in PctValues, p \in Profiles}

\* the desired lists: any entries in any order, repeated ids included
DesiredLists ==
    {<<>>} \cup {<<c>> : c \in DesiredConfigs}
           \cup {<<c, d>> : c \in DesiredConfigs, d \in DesiredConfigs}

ReloadDrafts ==
    {[orderId |-> "o1", ticker |-> "T1", side |-> "yes", action |-> "buy",
      count |-> 1, price |-> 20]}

WriteStrategiesFile(newConfigs) ==
    /\ nCalls < MaxCalls
    /\ last.op # "writeFile"      \* a second write only replaces the first
    /\ newConfigs # file
    /\ nCalls' = nCalls + 1
    /\ file' = newConfigs
    /\ last' = [NoCall EXCEPT !.op = "writeFile"]
    /\ UNCHANGED <<ledgerVars, http, snap, sock>>

ReloadStrategies ==
    LET R == reloadStrategies(Ledger, file)
    IN /\ Apply(R)
       /\ last' = [NoCall EXCEPT !.op = "reloadStrategies", !.res = R.res,
                                 !.calls = R.calls]
       /\ UNCHANGED otherVars

InitReload ==
    /\ totalCash = InitialCash
    /\ configs = EmptyMap
    /\ states = EmptyMap
    /\ orders = EmptyMap
    /\ file \in DesiredLists
    /\ last = NoCall
    /\ nCalls = 0
    /\ http = NoRequests
    /\ snap = NoSnapshot
    /\ sock = NoSocket

NextReload ==
    \/ \E newConfigs \in DesiredLists :
            nCalls < MaxReloadCalls /\ WriteStrategiesFile(newConfigs)
    \/ nCalls < MaxReloadCalls /\ ReloadStrategies
    \/ \E id \in Ids, order \in ReloadDrafts :
            nCalls < MaxReloadCalls /\ ReserveForOrder(id, order)

SpecReload == InitReload /\ [][NextReload]_vars

(***************************************************************************)
(* Registration: the ledger calls that admit, size and retire strategies,  *)
(* with configs of every profile (enabled and disabled).                   *)
(***************************************************************************)
NextAdmission ==
    \/ \E config \in DesiredConfigs : AddStrategy(config)
    \/ \E id \in Ids : RemoveStrategy(id)
    \/ \E cash \in CashValues : UpdateTotalCash(cash)
    \/ \E id \in Ids, pct \in PctValues : Reallocate(id, pct)

SpecAdmission == Init /\ [][NextAdmission]_vars

(***************************************************************************)
(* Positions: orders on both sides of a market are reserved and filled.    *)
(***************************************************************************)
SidedDrafts ==
    [orderId : OrderIds, ticker : Tickers, side : Sides, action : Actions,
     count : Counts, price : ReservePrices]

\* one strategy trades
PositionIds == {"A"}

NextPositions ==
    \/ \E config \in {c \in LedgerConfigs : c.id \in PositionIds} : AddStrategy(config)
    \/ \E id \in PositionIds, order \in SidedDrafts : ReserveForOrder(id, order)
    \/ \E oid \in OrderIds, fillPrice \in Prices, fillCount \in Counts, fee \in Fees :
            OnOrderFilled(oid, fillPrice, fillCount, fee)

SpecPositions == Init /\ [][NextPositions]_vars

(***************************************************************************)
(* Configuration: updateStrategyConfig called with every choice of fields. *)
(* The status values active and error are written by the code that runs a  *)
(* strategy, on the state object that getState returns.                    *)
(***************************************************************************)
StrategyStatus == {"idle", "active", "paused", "error"}
\* the values that no ledger operation writes
ReportedStatus == StrategyStatus \ {"idle", "paused"}

\* the partial configs: any fields of a profile
Partials ==
    {[keys |-> ks, enabled |-> p.enabled, params |-> p.params,
      name |-> p.name, type |-> p.type] :
        ks \in SUBSET ConfigFields, p \in Profiles}

UpdateStrategyConfig(id, partial) ==
    LET R == updateStrategyConfig(Ledger, id, partial)
    IN /\ Apply(R)
       /\ last' = [NoCall EXCEPT !.op = "updateStrategyConfig", !.res = R.res,
                                 !.sid = id, !.partial = partial]
       /\ UNCHANGED otherVars

\* getState(id).status = status
SetStatus(id, status) ==
    /\ id \in DOMAIN states
    /\ states[id].status # status
    /\ Apply(Ok([Ledger EXCEPT !.states[id].status = status]))
    /\ last' = [NoCall EXCEPT !.op = "setStatus", !.sid = id]
    /\ UNCHANGED otherVars

NextConfig ==
    \/ \E config \in {c \in DesiredConfigs : c.id \in PositionIds} : AddStrategy(config)
    \/ \E id \in Ids, partial \in Partials : UpdateStrategyConfig(id, partial)
    \/ \E id \in PositionIds, status \in ReportedStatus : SetStatus(id, status)
    \/ \E id \in PositionIds, order \in ReloadDrafts : ReserveForOrder(id, order)
    \/ \E oid \in OrderIds, fillPrice \in MarkPrices :
            OnOrderFilled(oid, fillPrice, 1, 1)

SpecConfig == Init /\ [][NextConfig]_vars

(***************************************************************************)
(* The HTTP server.  A handler runs without interruption up to its next    *)
(* await; the events of the feed, of the file watcher and other requests   *)
(* run while it is suspended.  http[oid] is the request whose randomUUID() *)
(* is oid: each orderId is drawn once.                                     *)
(***************************************************************************)
ServerDrafts ==
    [ticker : Tickers, side : DraftSides, action : Actions,
     count : Counts, price : ReservePrices]

\* the strategies files the server is started and reloaded with
ServerLists ==
    {<<Config("A", 7001, "n1", "t1", TRUE, ParamsXY)>>,
     <<Config("A", 3000, "n1", "t1", TRUE, ParamsXY),
       Config("B", 7001, "n1", "t1", TRUE, ParamsXY)>>,
     <<Config("B", 3000, "n1", "t1", TRUE, ParamsXY)>>}

\* new StrategyAllocator(balance); loadStrategies(allocator, file)
InitServer ==
    /\ file \in ServerLists
    /\ LET L == reloadStrategies([totalCash |-> InitialCash, configs |-> EmptyMap,
                                  states |-> EmptyMap, orders |-> EmptyMap],
                                 file).L
       IN /\ totalCash = L.totalCash
          /\ configs = L.configs
          /\ states = L.states
          /\ orders = L.orders
    /\ last = NoCall
    /\ nCalls = 0
    /\ http = NoRequests
    /\ snap = NoSnapshot
    /\ sock = NoSocket

\* POST /api/strategies/:id/orders up to `await readBody(req)`
PlaceReceived(oid, strategyId) ==
    /\ nCalls < MaxCalls
    /\ http[oid].pc = "idle"
    /\ nCalls' = nCalls + 1
    /\ http' = [http EXCEPT ![oid].pc = IF strategyId \in DOMAIN configs
                                        THEN "body" ELSE "notFound404",
                            ![oid].sid = strategyId]
    /\ last' = [NoCall EXCEPT !.op = "hasStrategy", !.sid = strategyId,
                              !.oid = oid]
    /\ UNCHANGED <<ledgerVars, file, snap, sock>>

\* from the body to `await client.createOrder(...)`
PlaceReserve(oid, draft) ==
    LET order == [orderId |-> oid, ticker |-> draft.ticker, side |-> draft.side,
                  action |-> draft.action, count |-> draft.count,
                  price |-> draft.price]
        R == reserveForOrder(Ledger, http[oid].sid, order)
    IN /\ nCalls < MaxCalls
       /\ http[oid].pc = "body"
       /\ ReserveForOrderCall(http[oid].sid, order)
       /\ http' = [http EXCEPT
                    ![oid].pc = IF R.res = "ok" THEN "createOrder"
                                ELSE IF R.res = "false" THEN "insufficient400"
                                ELSE "error500",
                    ![oid].action = order.action,
                    ![oid].cost = OrderCost(order)]
       /\ UNCHANGED <<file, snap, sock>>

\* client.createOrder resolves: 201
CreateOrderResolved(oid) ==
    /\ nCalls < MaxCalls
    /\ http[oid].pc = "createOrder"
    /\ nCalls' = nCalls + 1
    /\ http' = [http EXCEPT ![oid].pc = "created201"]
    /\ last' = [NoCall EXCEPT !.op = "createOrder", !.oid = oid]
    /\ UNCHANGED <<ledgerVars, file, snap, sock>>

\* a variant that answers 502 and keeps the reservation
CreateOrderRejectedSilently(oid) ==
    /\ nCalls < MaxCalls
    /\ http[oid].pc = "createOrder"
    /\ nCalls' = nCalls + 1
    /\ http' = [http EXCEPT ![oid].pc = "failed502"]
    /\ last' = [NoCall EXCEPT !.op = "createOrder", !.oid = oid]
    /\ UNCHANGED <<ledgerVars, file, snap, sock>>

\* client.createOrder rejects: the catch block, 502
CreateOrderRejected(oid) ==
    LET R == onOrderCancelled(Ledger, oid)
    IN /\ nCalls < MaxCalls
       /\ http[oid].pc = "createOrder"
       /\ OnOrderCancelledCall(oid)
       /\ http' = [http EXCEPT ![oid].pc = IF R.res = "throw" THEN "error500"
                                           ELSE "failed502"]
       /\ UNCHANGED <<file, snap, sock>>

\* GET /api/strategies
GetSnapshot ==
    /\ nCalls < MaxCalls
    /\ last.op # "getSnapshot"     \* a second read returns the same value
    /\ nCalls' = nCalls + 1
    /\ snap' = getSnapshot(Ledger)
    /\ last' = [NoCall EXCEPT !.op = "getSnapshot"]
    /\ UNCHANGED <<ledgerVars, file, http, sock>>

NextServer ==
    \/ \E oid \in OrderIds, id \in Ids : PlaceReceived(oid, id)
    \/ \E oid \in OrderIds, draft \in ServerDrafts : PlaceReserve(oid, draft)
    \/ \E oid \in OrderIds : CreateOrderResolved(oid)
    \/ \E oid \in OrderIds : CreateOrderRejected(oid)
    \/ GetSnapshot
    \/ \E ticker \in Tickers, price \in MarkPrices : UpdatePrice(ticker, price)
    \/ \E cash \in CashValues : UpdateTotalCash(cash)
    \/ \E newConfigs \in ServerLists : WriteStrategiesFile(newConfigs)
    \/ ReloadStrategies

SpecServer == InitServer /\ [][NextServer]_vars

(***************************************************************************)
(* Cancelling through the server.  The 201 answer of the POST handler      *)
(* carries two ids: trackedOrderId, the randomUUID() under which the       *)
(* ledger tracks the order, and order.order_id, which the exchange         *)
(* assigned (createOrder is not given the UUID).  http[oid].del is the id  *)
(* in the URL of the DELETE request for the order.  The exchange cancels   *)
(* the orders it knows, by its own ids.                                    *)
(***************************************************************************)
\* apiOrder.order.order_id of the order tracked as oid
ExchangeId(oid) == IF oid = "o1" THEN "x1" ELSE "x2"

\* DELETE /api/orders/:id up to `await client.cancelOrder(orderId)`
CancelReceived(oid, urlId) ==
    /\ nCalls < MaxCalls
    /\ http[oid].pc = "created201"
    /\ nCalls' = nCalls + 1
    /\ http' = [http EXCEPT ![oid].pc = "cancelOrder", ![oid].del = urlId]
    /\ last' = [NoCall EXCEPT !.op = "cancelOrder", !.oid = urlId]
    /\ UNCHANGED <<ledgerVars, file, snap, sock>>

\* client.cancelOrder resolves: allocator.onOrderCancelled(orderId), 200
CancelResolved(oid) ==
    /\ nCalls < MaxCalls
    /\ http[oid].pc = "cancelOrder"
    /\ http[oid].del = ExchangeId(oid)
    /\ OnOrderCancelledCall(http[oid].del)
    /\ http' = [http EXCEPT ![oid].pc = "cancelled200"]
    /\ UNCHANGED <<file, snap, sock>>

\* client.cancelOrder rejects: the catch block, 502
CancelRejected(oid) ==
    /\ nCalls < MaxCalls
    /\ http[oid].pc = "cancelOrder"
    /\ nCalls' = nCalls + 1
    /\ http' = [http EXCEPT ![oid].pc = "cancelFailed502"]
    /\ last' = [NoCall EXCEPT !.op = "cancelOrderRejected", !.oid = http[oid].del]
    /\ UNCHANGED <<ledgerVars, file, snap, sock>>

NextCancel ==
    \/ \E oid \in OrderIds, id \in Ids : PlaceReceived(oid, id)
    \/ \E oid \in OrderIds, draft \in ServerDrafts : PlaceReserve(oid, draft)
    \/ \E oid \in OrderIds : CreateOrderResolved(oid)
    \/ \E oid \in OrderIds : CreateOrderRejected(oid)
    \/ \E oid \in OrderIds : \E urlId \in {oid, ExchangeId(oid)} :
            CancelReceived(oid, urlId)
    \/ \E oid \in OrderIds : CancelResolved(oid)
    \/ \E oid \in OrderIds : CancelRejected(oid)

SpecCancel == InitServer /\ [][NextCancel]_vars

(***************************************************************************)
(* The WebSocket client.  connect() makes a WebSocket and attaches the     *)
(* open and close handlers to it; the handlers of a socket run whenever    *)
(* that socket opens or closes, whether or not it is still this.ws.  The   *)
(* callback of a reconnect timer calls connect().                          *)
(***************************************************************************)
connect(s) ==
    IF s.state \in {"connected", "connecting"} THEN s
    ELSE [s EXCEPT !.state = "connecting",
                   !.sockets = Append(@, "CONNECTING"),
                   !.ws = Len(s.sockets) + 1]

cleanup(s) == [s EXCEPT !.pingInterval = FALSE]

scheduleReconnect(s) ==
    IF s.reconnectAttempt < 0 THEN s
    ELSE [s EXCEPT !.state = "reconnecting",
                   !.reconnectAttempt = @ + 1,
                   !.timers = @ + 1]

\* ws.close(1000, ...) starts the closing of a socket that is not closed
disconnect(s) ==
    LET c == cleanup([s EXCEPT !.state = "disconnected", !.reconnectAttempt = -1])
    IN IF s.ws # 0
       THEN [c EXCEPT !.sockets[s.ws] = IF @ = "CLOSED" THEN "CLOSED" ELSE "CLOSING",
                      !.ws = 0]
       ELSE c

\* this.ws.on('open', ...) of socket k
onOpen(s, k) ==
    [s EXCEPT !.sockets[k] = "OPEN", !.state = "connected",
              !.reconnectAttempt = 0, !.pingInterval = TRUE]

\* this.ws.on('close', ...) of socket k
onClose(s, k) ==
    scheduleReconnect([cleanup(s) EXCEPT !.sockets[k] = "CLOSED",
                                         !.state = "disconnected"])

SocketStep(op, s) ==
    /\ nCalls' = nCalls + 1
    /\ sock' = s
    /\ last' = [NoCall EXCEPT !.op = op]
    /\ UNCHANGED <<ledgerVars, file, http, snap>>

\* the owner of the client calls connect()
Connect ==
    /\ nCalls < MaxSocketSteps
    /\ SocketStep("connect", [connect(sock) EXCEPT !.released = FALSE])

\* the owner of the client calls disconnect()
Disconnect ==
    /\ nCalls < MaxSocketSteps
    /\ SocketStep("disconnect", [disconnect(sock) EXCEPT !.released = TRUE])

\* a reconnect timer fires: () => this.connect()
TimerFires ==
    /\ nCalls < MaxSocketSteps
    /\ sock.timers > 0
    /\ SocketStep("timer", connect([sock EXCEPT !.timers = @ - 1]))

SocketOpens(k) ==
    /\ nCalls < MaxSocketSteps
    /\ sock.sockets[k] = "CONNECTING"
    /\ SocketStep("open", onOpen(sock, k))

SocketCloses(k) ==
    /\ nCalls < MaxSocketSteps
    /\ sock.sockets[k] # "CLOSED"
    /\ SocketStep("close", onClose(sock, k))

NextSocket ==
    \/ Connect
    \/ Disconnect
    \/ TimerFires
    \/ \E k \in 1..Len(sock.sockets) : SocketOpens(k)
    \/ \E k \in 1..Len(sock.sockets) : SocketCloses(k)

SpecSocket == Init /\ [][NextSocket]_vars

(***************************************************************************)
(* Prices: two strategies, loaded at start, trade two markets that the     *)
(* ticker feed marks; the balance feed and snapshot reads run in between.   *)
(***************************************************************************)
PriceTickers == {"T1", "T2"}

PriceDrafts ==
    [orderId : OrderIds, ticker : PriceTickers, side : DraftSides,
     action : {"buy"}, count : {1}, price : ReservePrices]

\* the strategies file at start
PriceList ==
    <<Config("A", 3000, "n1", "t1", TRUE, ParamsXY),
      Config("B", 7001, "n1", "t1", TRUE, ParamsXY)>>

\* new StrategyAllocator(balance); loadStrategies(allocator, file)
InitPrices ==
    /\ file = PriceList
    /\ LET L == reloadStrategies([totalCash |-> InitialCash, configs |-> EmptyMap,
                                  states |-> EmptyMap, orders |-> EmptyMap],
                                 file).L
       IN /\ totalCash = L.totalCash
          /\ configs = L.configs
          /\ states = L.states
          /\ orders = L.orders
    /\ last = NoCall
    /\ nCalls = 0
    /\ http = NoRequests
    /\ snap = NoSnapshot
    /\ sock = NoSocket

NextPrices ==
    \/ \E id \in Ids, order \in PriceDrafts : ReserveForOrder(id, order)
    \/ \E oid \in OrderIds, fillPrice \in MarkPrices :
            OnOrderFilled(oid, fillPrice, 1, 1)
    \/ \E ticker \in PriceTickers, price \in MarkPrices : UpdatePrice(ticker, price)
    \/ \E cash \in CashValues : UpdateTotalCash(cash)
    \/ GetSnapshot

SpecPrices == InitPrices /\ [][NextPrices]_vars

(***************************************************************************)
(* A worked scenario: a ledger of 100000 cents, three strategies asking    *)
(* for 0.3, 0.5 and 0.3 of it, a buy of 10 contracts at 50 filled at 45,   *)
(* a mark at 60 and a sell of 10 contracts at 70.  The calls are made in   *)
(* any order.                                                              *)
(***************************************************************************)
ScenarioConfigs ==
    {Config("A", 3000, "n1", "t1", TRUE, ParamsXY),
     Config("B", 5000, "n1", "t1", TRUE, ParamsXY),
     Config("C", 3000, "n1", "t1", TRUE, ParamsXY)}

ScenarioBuy ==
    [orderId |-> "o1", ticker |-> "T1", side |-> "yes", action |-> "buy",
     count |-> 10, price |-> 50]

ScenarioSell ==
    [orderId |-> "o2", ticker |-> "T1", side |-> "yes", action |-> "sell",
     count |-> 10, price |-> 70]

\* orderId, fillPrice, fillCount, fee
ScenarioFills == {<<"o1", 45, 10, 5>>, <<"o2", 70, 10, 5>>}

InitScenario ==
    /\ totalCash = 100000
    /\ configs = EmptyMap
    /\ states = EmptyMap
    /\ orders = EmptyMap
    /\ file = <<>>
    /\ last = NoCall
    /\ nCalls = 0
    /\ http = NoRequests
    /\ snap = NoSnapshot
    /\ sock = NoSocket

NextScenario ==
    \/ \E config \in ScenarioConfigs :
            /\ nCalls < MaxScenarioCalls
            /\ AddStrategyCall(config) /\ UNCHANGED otherVars
    \/ \E order \in {ScenarioBuy, ScenarioSell} :
            /\ nCalls < MaxScenarioCalls
            /\ ReserveForOrderCall("A", order) /\ UNCHANGED otherVars
    \/ \E f \in ScenarioFills :
            /\ nCalls < MaxScenarioCalls
            /\ OnOrderFilledCall(f[1], f[2], f[3], f[4]) /\ UNCHANGED otherVars
    \/ /\ nCalls < MaxScenarioCalls
       /\ UpdatePriceCall("T1", 60) /\ UNCHANGED otherVars

SpecScenario == InitScenario /\ [][NextScenario]_vars

(***************************************************************************)
(* Status: the ledger operations that write a strategy's status, called    *)
(* directly and by reconciliation passes, with nothing else writing it.    *)
(***************************************************************************)
\* every profile for each id, at one fraction
StatusConfigs == {c \in DesiredConfigs : c.allocationPct = 3000}

StatusLists ==
    {<<c>> : c \in StatusConfigs}
    \cup {<<c, d>> : c \in {x \in StatusConfigs : x.id = "A"},
                     d \in {x \in StatusConfigs : x.id = "B"}}

\* partial configs of one field
StatusPartials == {p \in Partials : p.keys \in {{"enabled"}, {"name"}}}

NextStatus ==
    \/ \E config \in StatusConfigs : AddStrategy(config)
    \/ \E id \in Ids, partial \in StatusPartials : UpdateStrategyConfig(id, partial)
    \/ \E newConfigs \in StatusLists : WriteStrategiesFile(newConfigs)
    \/ ReloadStrategies

SpecStatus == Init /\ [][NextStatus]_vars

(***************************************************************************)
(* The pool: strategies are admitted, reallocated and removed while the    *)
(* balance feed reports small and large balances.                          *)
(***************************************************************************)
PoolCash == {0, 105, 10000}

NextPool ==
    \/ \E config \in LedgerConfigs : AddStrategy(config)
    \/ \E id \in Ids : RemoveStrategy(id)
    \/ \E cash \in PoolCash : UpdateTotalCash(cash)
    \/ \E id \in Ids, pct \in PctValues : Reallocate(id, pct)

SpecPool == Init /\ [][NextPool]_vars

(***************************************************************************)
(* The order table: the strategies of the file reserve and cancel orders   *)
(* under orderIds that the caller supplies; nothing is filled.             *)
(***************************************************************************)
NextOrders ==
    \/ \E id \in Ids, order \in OrderDrafts : ReserveForOrder(id, order)
    \/ \E oid \in OrderIds : OnOrderCancelled(oid)

SpecOrders == InitServer /\ [][NextOrders]_vars

(***************************************************************************)
(* The buy lifecycle: buy reservations, their fills and cancellations.  A  *)
(* fill is of at most the order's count, at no more than the reserved      *)
(* price; the same fill may be delivered again, and a cancellation may     *)
(* follow a fill.                                                          *)
(***************************************************************************)
BuyDrafts == {order \in OrderDrafts : order.action = "buy"}

FillOfTrackedBuy(orderId, fillPrice, fillCount, fee) ==
    /\ orderId \in DOMAIN orders
    /\ fillPrice <= orders[orderId].price
    /\ fillCount <= orders[orderId].count
    /\ OnOrderFilled(orderId, fillPrice, fillCount, fee)

NextBuys ==
    \/ \E config \in LedgerConfigs : AddStrategy(config)
    \/ \E id \in Ids, order \in BuyDrafts : ReserveForOrder(id, order)
    \/ \E oid \in OrderIds, fillPrice \in Prices, fillCount \in Counts, fee \in Fees :
            FillOfTrackedBuy(oid, fillPrice, fillCount, fee)
    \/ \E oid \in OrderIds : OnOrderCancelled(oid)

SpecBuys == Init /\ [][NextBuys]_vars

(***************************************************************************)
(* Properties                                                              *)
(***************************************************************************)

\* C1: after every addStrategy and reallocate call, accepted or rejected, the
\* sum of allocationPct over the registered configs is at most 1 + 1e-4.
C1_TotalAllocationBounded == totalAllocationPct(Ledger) <= OnePlusEps

\* the bound is met exactly by two strategies after an accepted reallocate
C1_Witness ==
    /\ last.op = "reallocate" /\ last.res = "ok"
    /\ Cardinality(DOMAIN configs) = 2
    /\ totalAllocationPct(Ledger) = OnePlusEps

\* C2: every registered strategy has availableCash >= 0 and
\* lockedInOrders >= 0 in every reachable state.
C2_CashNonNegative ==
    \A id \in DOMAIN states :
        states[id].availableCash >= 0 /\ states[id].lockedInOrders >= 0

\* a shrinking total took more than was available: the clamp acted
C2_Witness ==
    /\ last.op = "updateTotalCash"
    /\ \E id \in DOMAIN states :
        /\ states[id].lockedInOrders > 0
        /\ states[id].availableCash = 0
        /\ states[id].allocatedCash = 0

\* C3: allocatedCash = floor(totalCash * allocationPct) for every registered
\* strategy after every call, and only addStrategy, reallocate,
\* updateTotalCash (and the reload that calls them) change allocatedCash,
\* allocationPct or totalCash.
AllocatedIsFloor(total, pct, allocated) ==
    /\ allocated * PctScale <= total * pct
    /\ total * pct < (allocated + 1) * PctScale

C3_AllocatedCashIsFloor ==
    [][/\ \A id \in DOMAIN states' :
            /\ id \in DOMAIN configs'
            /\ AllocatedIsFloor(totalCash', configs'[id].allocationPct,
                                states'[id].allocatedCash)
       /\ last'.op \notin {"addStrategy", "reallocate", "updateTotalCash",
                           "reloadStrategies"}
            => /\ totalCash' = totalCash
               /\ \A id \in DOMAIN states' :
                    /\ id \in DOMAIN states /\ id \in DOMAIN configs
                    /\ states'[id].allocatedCash = states[id].allocatedCash
                    /\ configs'[id].allocationPct = configs[id].allocationPct]_vars

\* a reallocation whose product totalCash * allocationPct is not whole
C3_Witness ==
    /\ last.op = "reallocate" /\ last.res = "ok"
    /\ (totalCash * configs[last.sid].allocationPct) % PctScale # 0
    /\ states[last.sid].lockedInOrders > 0

\* C4: reserveForOrder for a buy on a registered strategy succeeds iff
\* availableCash >= count * price beforehand; on success availableCash falls
\* and lockedInOrders rises by exactly count * price, ordersPlaced rises by
\* one and the order is in the order table; on rejection it returns false
\* and the strategy states and the order table are unchanged.
C4_ReserveBuy ==
    [][(/\ last'.op = "reserveForOrder"
        /\ last'.action = "buy"
        /\ last'.sid \in DOMAIN states)
       => LET s == states[last'.sid]
              cost == last'.cost
          IN /\ last'.res = "ok" <=> s.availableCash >= cost
             /\ last'.res = "ok" =>
                    /\ states'[last'.sid].availableCash = s.availableCash - cost
                    /\ states'[last'.sid].lockedInOrders = s.lockedInOrders + cost
                    /\ states'[last'.sid].ordersPlaced = s.ordersPlaced + 1
                    /\ last'.oid \in DOMAIN orders'
                    /\ orders'[last'.oid].strategyId = last'.sid
                    /\ orders'[last'.oid].action = "buy"
                    /\ OrderCost(orders'[last'.oid]) = cost
             /\ last'.res # "ok" =>
                    /\ last'.res = "false"
                    /\ states' = states
                    /\ orders' = orders]_vars

\* a buy is rejected on a strategy that holds an earlier accepted reservation
C4_Witness ==
    /\ last.op = "reserveForOrder" /\ last.action = "buy" /\ last.res = "false"
    /\ last.sid \in DOMAIN states
    /\ states[last.sid].lockedInOrders > 0
    /\ states[last.sid].availableCash > 0

\* C5 as stated: a buy fill reduces lockedInOrders by fillCount * reservedPrice,
\* credits (reservedPrice - fillPrice) * fillCount when fillPrice <
\* reservedPrice, and leaves availableCash unchanged otherwise.
BuyFillStep ==
    /\ last'.op = "onOrderFilled" /\ last'.res = "ok" /\ last'.action = "buy"

C5_Original ==
    [][BuyFillStep =>
        LET tracked == orders[last'.oid]
            s == states[tracked.strategyId]
            t == states'[tracked.strategyId]
        IN /\ t.lockedInOrders = s.lockedInOrders - last'.fillCount * tracked.price
           /\ last'.fillPrice < tracked.price =>
                t.availableCash = s.availableCash
                    + (tracked.price - last'.fillPrice) * last'.fillCount
           /\ last'.fillPrice >= tracked.price =>
                t.availableCash = s.availableCash]_vars

\* C5 as amended: lockedInOrders becomes max(0, lockedInOrders - fillCount *
\* reservedPrice): the reduction is fillCount * reservedPrice unless less than
\* that is locked, and then lockedInOrders becomes 0; the availableCash part
\* is as stated.
C5_BuyFill ==
    [][BuyFillStep =>
        LET tracked == orders[last'.oid]
            s == states[tracked.strategyId]
            t == states'[tracked.strategyId]
            unlock == last'.fillCount * tracked.price
        IN /\ t.lockedInOrders =
                IF s.lockedInOrders >= unlock THEN s.lockedInOrders - unlock ELSE 0
           /\ last'.fillPrice < tracked.price =>
                t.availableCash = s.availableCash
                    + (tracked.price - last'.fillPrice) * last'.fillCount
           /\ last'.fillPrice >= tracked.price =>
                t.availableCash = s.availableCash]_vars

\* a buy filled above its reserved price, with more locked than the fill unlocks
C5_Witness ==
    /\ last.op = "onOrderFilled" /\ last.res = "ok" /\ last.action = "buy"
    /\ last.oid \in DOMAIN orders
    /\ last.fillPrice > orders[last.oid].price
    /\ states[last.sid].lockedInOrders > 0

\* C6: when a fill and a cancellation of the same orderId are processed one
\* after the other, in either order, the second finds the order unknown and
\* changes nothing.
C6_SecondEventIsNoOp ==
    [][(/\ last.res = "ok" /\ last'.oid = last.oid
        /\ \/ last.op = "onOrderFilled" /\ last'.op = "onOrderCancelled"
           \/ last.op = "onOrderCancelled" /\ last'.op = "onOrderFilled")
       => /\ last'.res = "unknown"
          /\ UNCHANGED ledgerVars]_vars

\* C7: for a buy, reserveForOrder followed by onOrderCancelled of the same
\* orderId restores availableCash and lockedInOrders of the strategy to their
\* values before the reservation.
C7_CancelRestores ==
    [][(/\ last.op = "reserveForOrder" /\ last.res = "ok" /\ last.action = "buy"
        /\ last'.op = "onOrderCancelled" /\ last'.oid = last.oid)
       => /\ last'.res = "ok"
          /\ states'[last.sid].availableCash = last.avail0
          /\ states'[last.sid].lockedInOrders = last.locked0]_vars

\* three calls were made: the registration, the buy reservation and its
\* cancellation
C7_Witness ==
    /\ last.op = "onOrderCancelled" /\ last.res = "ok" /\ last.action = "buy"
    /\ nCalls = 3
    /\ states[last.sid].ordersPlaced = 1
    /\ states[last.sid].ordersCancelled = 1
    /\ states[last.sid].availableCash > 0

\* a desired list without repeated ids
DistinctIds(newConfigs) ==
    \A i, j \in 1..Len(newConfigs) : newConfigs[i].id = newConfigs[j].id => i = j

\* the ids whose addStrategy or reallocate call of the pass was refused
RejectedIn(calls) ==
    {calls[k].id : k \in {j \in 1..Len(calls) :
        /\ calls[j].res = "throw"
        /\ calls[j].call \in {"addStrategy", "reallocate"}}}

\* C8: in a reconciliation pass over a list of distinct ids, a rejection by
\* the ledger for one desired entry (addStrategy or reallocate refused for
\* allocation overflow) is skipped and does not prevent the remaining entries
\* from being updated: every other desired entry that was registered before
\* the pass has the desired enabled, name and type after it.
C8_RejectionIsSkipped ==
    [][(/\ last'.op = "reloadStrategies"
        /\ DistinctIds(file)
        /\ RejectedIn(last'.calls) # {})
       => \A i \in 1..Len(file) :
            (/\ file[i].id \in DOMAIN configs
             /\ file[i].id \notin RejectedIn(last'.calls))
            => /\ file[i].id \in DOMAIN configs'
               /\ configs'[file[i].id].enabled = file[i].enabled
               /\ configs'[file[i].id].name = file[i].name
               /\ configs'[file[i].id].type = file[i].type]_vars

\* C9: a second reconciliation pass over the same desired list, with no other
\* ledger call in between, makes no ledger call that succeeds and changes
\* nothing in the ledger.
C9_SecondPassChangesNothing ==
    [][(last.op = "reloadStrategies" /\ last'.op = "reloadStrategies")
       => /\ UNCHANGED ledgerVars
          /\ \A k \in 1..Len(last'.calls) : last'.calls[k].res # "ok"]_vars

\* the same holds of the desired lists without repeated ids
SecondPassOfDistinctIdsChangesNothing ==
    [][(last.op = "reloadStrategies" /\ last'.op = "reloadStrategies"
        /\ DistinctIds(file))
       => /\ UNCHANGED ledgerVars
          /\ \A k \in 1..Len(last'.calls) : last'.calls[k].res # "ok"]_vars

\* C10: removeStrategy on a registered strategy fails and changes nothing iff
\* the strategy has an open position or lockedInOrders > 0; otherwise it
\* deletes the config and the state of the strategy.
C10_RemoveStrategy ==
    [][(last'.op = "removeStrategy" /\ last'.sid \in DOMAIN states)
       => LET s == states[last'.sid]
              blocked == DOMAIN s.positions # {} \/ s.lockedInOrders > 0
          IN /\ blocked <=> last'.res = "throw"
             /\ blocked => UNCHANGED ledgerVars
             /\ ~blocked =>
                    /\ last'.res = "ok"
                    /\ DOMAIN configs' = DOMAIN configs \ {last'.sid}
                    /\ DOMAIN states' = DOMAIN states \ {last'.sid}
                    /\ \A id \in DOMAIN states' : states'[id] = states[id]
                    /\ \A id \in DOMAIN configs' : configs'[id] = configs[id]]_vars

\* a removal refused for an open position alone
C10_Witness ==
    /\ last.op = "removeStrategy" /\ last.res = "throw"
    /\ last.sid \in DOMAIN states
    /\ DOMAIN states[last.sid].positions # {}
    /\ states[last.sid].lockedInOrders = 0

\* C11: addStrategy is rejected exactly when the config id is already
\* registered or the current total allocation plus the new allocationPct
\* exceeds 1 + 1e-4, and a rejected addStrategy leaves totalCash, every config,
\* every state and the order table unchanged.
C11_AddStrategyRejection ==
    [][last'.op = "addStrategy"
       => /\ last'.res = "throw"
                <=> \/ last'.sid \in DOMAIN configs
                    \/ totalAllocationPct(Ledger) + last'.pct > OnePlusEps
          /\ last'.res = "throw" => UNCHANGED ledgerVars]_vars

\* a new id is refused for the allocation alone, on a ledger that holds a
\* strategy with a tracked order
C11_Witness ==
    /\ last.op = "addStrategy" /\ last.res = "throw"
    /\ last.sid \notin DOMAIN configs
    /\ DOMAIN orders # {}

\* C12: a successful addStrategy on a ledger with totalCash = T creates a state
\* with allocatedCash = availableCash = floor(T * allocationPct),
\* lockedInOrders = 0, no positions, realizedPnl, unrealizedPnl, fees and the
\* three order counters zero, and status idle when config.enabled is true and
\* paused otherwise.
C12_NewStrategyState ==
    [][(last'.op = "addStrategy" /\ last'.res = "ok")
       => /\ last'.sid \in DOMAIN states' /\ last'.sid \in DOMAIN configs'
          /\ LET s == states'[last'.sid]
                 c == configs'[last'.sid]
             IN /\ c.allocationPct = last'.pct
                /\ AllocatedIsFloor(totalCash, last'.pct, s.allocatedCash)
                /\ s.availableCash = s.allocatedCash
                /\ s.lockedInOrders = 0
                /\ DOMAIN s.positions = {}
                /\ s.realizedPnl = 0 /\ s.unrealizedPnl = 0 /\ s.fees = 0
                /\ s.ordersPlaced = 0 /\ s.ordersFilled = 0
                /\ s.ordersCancelled = 0
                /\ s.status = IF c.enabled THEN "idle" ELSE "paused"]_vars

\* a disabled config is registered with a share that is not a whole amount
C12_Witness ==
    /\ last.op = "addStrategy" /\ last.res = "ok"
    /\ ~configs[last.sid].enabled
    /\ states[last.sid].status = "paused"
    /\ (totalCash * last.pct) % PctScale # 0
    /\ states[last.sid].allocatedCash > 0

\* C13: reallocate(id, newPct) on a registered strategy is rejected with no
\* state change when (total allocation - the strategy's old pct) + newPct >
\* 1 + 1e-4; otherwise it succeeds: allocationPct becomes newPct, allocatedCash
\* becomes floor(totalCash * newPct), availableCash becomes max(0,
\* availableCash + (new allocatedCash - old allocatedCash)), and the
\* strategy's lockedInOrders and positions are unchanged.
C13_Reallocate ==
    [][(last'.op = "reallocate" /\ last'.sid \in DOMAIN configs)
       => LET id == last'.sid
              s == states[id]
              over == (totalAllocationPct(Ledger) - configs[id].allocationPct)
                      + last'.pct > OnePlusEps
          IN /\ over => last'.res = "throw" /\ UNCHANGED ledgerVars
             /\ ~over =>
                    /\ last'.res = "ok"
                    /\ configs'[id].allocationPct = last'.pct
                    /\ AllocatedIsFloor(totalCash, last'.pct,
                                        states'[id].allocatedCash)
                    /\ LET moved == s.availableCash
                                    + (states'[id].allocatedCash - s.allocatedCash)
                       IN states'[id].availableCash
                            = IF moved >= 0 THEN moved ELSE 0
                    /\ states'[id].lockedInOrders = s.lockedInOrders
                    /\ states'[id].positions = s.positions]_vars

\* a share is cut below what the strategy has committed: the strategy holds a
\* position and locked capital, and its availableCash was clamped at 0
C13_Witness ==
    /\ last.op = "reallocate" /\ last.res = "ok"
    /\ states[last.sid].availableCash = 0
    /\ states[last.sid].allocatedCash > 0
    /\ states[last.sid].lockedInOrders > 0
    /\ DOMAIN states[last.sid].positions # {}

\* C14: updateTotalCash(newTotal) sets, for every registered strategy,
\* allocatedCash to floor(newTotal * allocationPct) and availableCash to
\* max(0, availableCash + change in allocatedCash), and leaves every other
\* field of every strategy state (lockedInOrders, positions, P&L accumulators,
\* counters) and the order table unchanged.
C14_UpdateTotalCash ==
    [][last'.op = "updateTotalCash"
       => /\ orders' = orders
          /\ DOMAIN states' = DOMAIN states
          /\ \A id \in DOMAIN states :
                LET s == states[id]
                    t == states'[id]
                    moved == s.availableCash + (t.allocatedCash - s.allocatedCash)
                IN /\ id \in DOMAIN configs
                   /\ AllocatedIsFloor(last'.cash, configs[id].allocationPct,
                                       t.allocatedCash)
                   /\ t = [s EXCEPT
                            !.allocatedCash = t.allocatedCash,
                            !.availableCash = IF moved >= 0 THEN moved ELSE 0]]_vars

\* the total fell to 0 under a strategy that holds a position, a filled order
\* and locked capital
C14_Witness ==
    /\ last.op = "updateTotalCash" /\ last.cash = 0
    /\ \E id \in DOMAIN states :
        /\ states[id].allocatedCash = 0
        /\ states[id].lockedInOrders > 0
        /\ DOMAIN states[id].positions # {}
        /\ states[id].ordersFilled = 1

\* whether b is Math.round(num / den), for den > 0
IsRound(num, den, b) ==
    /\ 2 * b * den <= 2 * num + den
    /\ 2 * num + den < 2 * (b + 1) * den

\* the position on the ticker of a filled buy is the old one grown by the fill
GrownPosition(tracked, s, t, fillPrice, fillCount) ==
    LET held == tracked.ticker \in DOMAIN s.positions
        oldQty == IF held THEN s.positions[tracked.ticker].quantity ELSE 0
        oldBasis == IF held THEN s.positions[tracked.ticker].avgCostBasis ELSE 0
    IN /\ tracked.ticker \in DOMAIN t.positions
       /\ t.positions[tracked.ticker].quantity = oldQty + fillCount
       /\ IsRound(oldBasis * oldQty + fillPrice * fillCount, oldQty + fillCount,
                  t.positions[tracked.ticker].avgCostBasis)

\* C15: after onOrderFilled for a tracked buy order on ticker t, the strategy
\* holds a position on t whose quantity is its previous quantity on t (0 if
\* none) plus fillCount and whose avgCostBasis is round((old avgCostBasis *
\* old quantity + fillPrice * fillCount) / (old quantity + fillCount)).
C15_BuyFillPosition ==
    [][BuyFillStep =>
        LET tracked == orders[last'.oid]
        IN GrownPosition(tracked, states[tracked.strategyId],
                         states'[tracked.strategyId],
                         last'.fillPrice, last'.fillCount)]_vars

\* the same, of the buy fills that meet no position of the other side
BuyFillOnSameSideGrowsPosition ==
    [][BuyFillStep =>
        LET tracked == orders[last'.oid]
            s == states[tracked.strategyId]
        IN (tracked.ticker \in DOMAIN s.positions
                => s.positions[tracked.ticker].side = tracked.side)
           => GrownPosition(tracked, s, states'[tracked.strategyId],
                            last'.fillPrice, last'.fillCount)]_vars

\* C16: onOrderFilled for a tracked sell order: if the strategy holds a
\* position on the ticker, realizedPnl increases by (fillPrice - avgCostBasis)
\* * fillCount, the quantity of the position decreases by fillCount and the
\* position is removed when its quantity reaches 0 or less; availableCash
\* increases by fillCount * fillPrice whether or not a position was found; in
\* every fill, buy or sell, fees increases by fee and ordersFilled by one.
C16_SellFill ==
    [][(last'.op = "onOrderFilled" /\ last'.res = "ok")
       => LET tracked == orders[last'.oid]
              s == states[tracked.strategyId]
              t == states'[tracked.strategyId]
              tk == tracked.ticker
              fp == last'.fillPrice
              fc == last'.fillCount
          IN /\ t.fees = s.fees + last'.fee
             /\ t.ordersFilled = s.ordersFilled + 1
             /\ tracked.action = "sell" =>
                    /\ t.availableCash = s.availableCash + fc * fp
                    /\ tk \in DOMAIN s.positions =>
                        /\ t.realizedPnl = s.realizedPnl
                                + (fp - s.positions[tk].avgCostBasis) * fc
                        /\ IF s.positions[tk].quantity - fc <= 0
                           THEN tk \notin DOMAIN t.positions
                           ELSE /\ tk \in DOMAIN t.positions
                                /\ t.positions[tk] =
                                    [s.positions[tk] EXCEPT
                                        !.quantity = s.positions[tk].quantity - fc]
                    /\ tk \notin DOMAIN s.positions =>
                        /\ t.realizedPnl = s.realizedPnl
                        /\ t.positions = s.positions]_vars

\* a sell above the cost basis of part of a position: a profit is realized and
\* the rest of the position stays
C16_Witness ==
    /\ last.op = "onOrderFilled" /\ last.res = "ok" /\ last.action = "sell"
    /\ states[last.sid].realizedPnl > 0
    /\ DOMAIN states[last.sid].positions # {}
    /\ states[last.sid].ordersFilled = 2
    /\ states[last.sid].fees = 2

\* C17: onOrderFilled and onOrderCancelled with an orderId that is absent from
\* the order table change nothing (totalCash, every config, every strategy
\* state and the order table are unchanged) and raise no error.
C17_UnknownOrderIgnored ==
    [][(/\ last'.op \in {"onOrderFilled", "onOrderCancelled"}
        /\ last'.oid \notin DOMAIN orders)
       => /\ last'.res = "unknown"
          /\ UNCHANGED ledgerVars]_vars

\* an order that was cancelled is cancelled again while another order is
\* tracked
C17_Witness ==
    /\ last.op = "onOrderCancelled" /\ last.res = "unknown"
    /\ DOMAIN orders # {}
    /\ \E id \in DOMAIN states : states[id].ordersCancelled = 1

\* the registered strategies whose removal the pass attempted and was refused
RefusedRemovals(calls) ==
    {calls[k].id : k \in {j \in 1..Len(calls) :
        calls[j].call = "removeStrategy" /\ calls[j].res = "throw"}}

\* the entry of the desired list that the update step applies last for its id
LastEntryOfId(newConfigs, i) ==
    \A j \in 1..Len(newConfigs) : newConfigs[j].id = newConfigs[i].id => j <= i

\* the config of the ledger agrees with the desired entry
Reconciled(config, desired) ==
    /\ config.enabled = desired.enabled
    /\ config.name = desired.name
    /\ config.type = desired.type
    /\ JsonStringify(config.params) = JsonStringify(desired.params)
    /\ Abs(config.allocationPct - desired.allocationPct) <= ReloadEps

\* C18: during reconciliation, a removeStrategy rejection for a registered
\* strategy absent from the desired list leaves the config and the state of
\* that strategy untouched and does not stop the pass: every other removal is
\* attempted, and the update step runs (the pass ends normally with every
\* desired entry that was registered before the pass reconciled, or it is
\* ended by a reallocate or updateStrategyConfig call of the update step).
C18_RefusedRemovalIsSkipped ==
    [][(/\ last'.op = "reloadStrategies"
        /\ RefusedRemovals(last'.calls) \cap DOMAIN configs # {})
       => LET calls == last'.calls
          IN /\ \A x \in RefusedRemovals(calls) \cap DOMAIN configs :
                    /\ x \notin IdsOf(file)
                    /\ x \in DOMAIN configs' /\ x \in DOMAIN states'
                    /\ configs'[x] = configs[x]
                    /\ states'[x] = states[x]
             /\ \A y \in DOMAIN configs \ IdsOf(file) :
                    \E k \in 1..Len(calls) :
                        calls[k].call = "removeStrategy" /\ calls[k].id = y
             /\ \/ /\ last'.res = "ok"
                   /\ \A i \in 1..Len(file) :
                        (file[i].id \in DOMAIN configs /\ LastEntryOfId(file, i))
                        => /\ file[i].id \in DOMAIN configs'
                           /\ Reconciled(configs'[file[i].id], file[i])
                \/ /\ last'.res = "throw"
                   /\ calls[Len(calls)].call \in {"reallocate",
                                                   "updateStrategyConfig"}
                   /\ calls[Len(calls)].res = "throw"]_vars

\* a pass in which a removal is refused and a later call updates another
\* strategy
C18_Witness ==
    /\ last.op = "reloadStrategies" /\ last.res = "ok"
    /\ \E j, k \in 1..Len(last.calls) :
        /\ j < k
        /\ last.calls[j].call = "removeStrategy" /\ last.calls[j].res = "throw"
        /\ last.calls[j].id \in DOMAIN configs
        /\ last.calls[k].call \in {"reallocate", "updateStrategyConfig"}
        /\ last.calls[k].res = "ok"

\* the step of the pass a ledger call belongs to
StepOf(call) ==
    IF call.call = "addStrategy" THEN 1
    ELSE IF call.call = "removeStrategy" THEN 2
    ELSE 3

\* C19: a reconciliation pass makes its ledger calls in a fixed order: every
\* addStrategy precedes every removeStrategy, which precedes every reallocate
\* and updateStrategyConfig; and no reallocate or updateStrategyConfig is
\* issued for an id that was added in the same pass.
C19_FixedOrder ==
    [][last'.op = "reloadStrategies"
       => LET calls == last'.calls
          IN /\ \A k \in 1..Len(calls) :
                    calls[k].call \in {"addStrategy", "removeStrategy",
                                       "reallocate", "updateStrategyConfig"}
             /\ \A j, k \in 1..Len(calls) :
                    j < k => StepOf(calls[j]) <= StepOf(calls[k])
             /\ \A j, k \in 1..Len(calls) :
                    (calls[j].call = "addStrategy" /\ StepOf(calls[k]) = 3)
                    => calls[j].id # calls[k].id]_vars

\* a pass that adds one strategy and then updates the other
C19_Witness ==
    /\ last.op = "reloadStrategies"
    /\ \E j, k \in 1..Len(last.calls) :
        /\ j < k
        /\ last.calls[j].call = "addStrategy" /\ last.calls[j].res = "ok"
        /\ StepOf(last.calls[k]) = 3 /\ last.calls[k].res = "ok"

\* the only entry of the desired list for its id
OnlyEntryOfId(newConfigs, i) ==
    \A j \in 1..Len(newConfigs) : newConfigs[j].id = newConfigs[i].id => j = i

\* the fields among enabled, name, type, params in which two configs differ;
\* two params objects differ when they do not hold the same entries
DifferingFields(current, desired) ==
    {f \in {"enabled", "name", "type"} : current[f] # desired[f]}
    \cup (IF current.params.val # desired.params.val THEN {"params"} ELSE {})

\* the calls of a pass that carry the name `name` for the strategy `id`
CallsFor(calls, name, id) ==
    {k \in 1..Len(calls) : calls[k].call = name /\ calls[k].id = id}

UpdateCallsAsClaimed(calls, current, desired) ==
    LET ups == CallsFor(calls, "updateStrategyConfig", desired.id)
    IN /\ CallsFor(calls, "reallocate", desired.id) # {}
            <=> Abs(current.allocationPct - desired.allocationPct) > ReloadEps
       /\ Cardinality(ups) <= 1
       /\ ups # {} <=> DifferingFields(current, desired) # {}
       /\ \A k \in ups : calls[k].keys = DifferingFields(current, desired)

\* C20: in the update step of a reconciliation pass, for each id present both
\* in the ledger before the pass and (once) in the desired list: reallocate is
\* called iff |current allocationPct - desired allocationPct| > 1e-4, and
\* updateStrategyConfig is called at most once, exactly when at least one of
\* enabled, name, type, params differs, carrying only the fields that differ.
C20_UpdateCalls ==
    [][last'.op = "reloadStrategies"
       => \A i \in 1..Len(file) :
            (file[i].id \in DOMAIN configs /\ OnlyEntryOfId(file, i))
            => UpdateCallsAsClaimed(last'.calls, configs[file[i].id], file[i])]_vars

\* the same, of the passes that no refused call ended
UpdateCallsOfCompletedPass ==
    [][(last'.op = "reloadStrategies" /\ last'.res = "ok")
       => \A i \in 1..Len(file) :
            (file[i].id \in DOMAIN configs /\ OnlyEntryOfId(file, i))
            => UpdateCallsAsClaimed(last'.calls, configs[file[i].id], file[i])]_vars

\* the same, of the completed passes whose params keep their key order
UpdateCallsOfCompletedPassInKeyOrder ==
    [][(last'.op = "reloadStrategies" /\ last'.res = "ok")
       => \A i \in 1..Len(file) :
            (/\ file[i].id \in DOMAIN configs /\ OnlyEntryOfId(file, i)
             /\ (configs[file[i].id].params.val = file[i].params.val
                    => configs[file[i].id].params = file[i].params))
            => UpdateCallsAsClaimed(last'.calls, configs[file[i].id], file[i])]_vars

\* the status that C21 names for a strategy in `status` after `partial`
ClaimedStatus(status, partial) ==
    IF "enabled" \notin partial.keys THEN status
    ELSE IF ~partial.enabled
    THEN (IF status = "error" THEN "error" ELSE "paused")
    ELSE (IF status = "paused" THEN "idle" ELSE status)

\* C21: updateStrategyConfig changes only the provided fields among enabled,
\* name, type, params; enabled = false moves status to paused unless status is
\* error; enabled = true moves status from paused to idle and leaves any other
\* status unchanged; allocationPct, allocatedCash, availableCash,
\* lockedInOrders, positions (and every other field of the state, every other
\* strategy, totalCash and the order table) are unchanged; for an unknown id
\* it fails and changes nothing.
C21_UpdateStrategyConfig ==
    [][last'.op = "updateStrategyConfig"
       => LET id == last'.sid
              partial == last'.partial
          IN IF id \notin DOMAIN configs
             THEN last'.res = "throw" /\ UNCHANGED ledgerVars
             ELSE /\ last'.res = "ok"
                  /\ totalCash' = totalCash /\ orders' = orders
                  /\ DOMAIN configs' = DOMAIN configs
                  /\ DOMAIN states' = DOMAIN states
                  /\ \A x \in DOMAIN configs \ {id} :
                        configs'[x] = configs[x] /\ states'[x] = states[x]
                  /\ \A f \in ConfigFields :
                        configs'[id][f] = IF f \in partial.keys THEN partial[f]
                                          ELSE configs[id][f]
                  /\ configs'[id].id = id
                  /\ configs'[id].allocationPct = configs[id].allocationPct
                  /\ states'[id] =
                        [states[id] EXCEPT
                            !.status = ClaimedStatus(states[id].status, partial)]]_vars

\* a strategy in error, with locked capital, is disabled and stays in error
C21_Witness ==
    /\ last.op = "updateStrategyConfig" /\ last.res = "ok"
    /\ "enabled" \in last.partial.keys /\ ~last.partial.enabled
    /\ ~configs[last.sid].enabled
    /\ states[last.sid].status = "error"
    /\ states[last.sid].lockedInOrders > 0

\* C22: in the order-placement path, the external createOrder call is made
\* only after reserveForOrder returned true for that order (a request whose
\* reservation was rejected never reaches createOrder), and when createOrder
\* fails after a successful reservation, onOrderCancelled is called with the
\* same orderId; for a buy it succeeds, removes the order and moves
\* count * price from lockedInOrders back to availableCash.
C22_ReserveBeforeCreateOrder ==
    [][\A oid \in OrderIds :
        /\ (http'[oid].pc = "createOrder" /\ http[oid].pc # "createOrder")
            => /\ last'.op = "reserveForOrder" /\ last'.res = "ok"
               /\ last'.oid = oid
               /\ oid \in DOMAIN orders'
               /\ orders'[oid].strategyId = http[oid].sid
        /\ http[oid].pc \in {"insufficient400", "notFound404"}
            => http'[oid].pc = http[oid].pc
        /\ (http[oid].pc = "createOrder"
             /\ http'[oid].pc \notin {"createOrder", "created201"})
            => /\ last'.op = "onOrderCancelled" /\ last'.oid = oid
               /\ http[oid].action = "buy"
                    => LET s == states[http[oid].sid]
                           t == states'[http[oid].sid]
                       IN /\ last'.res = "ok"
                          /\ oid \notin DOMAIN orders'
                          /\ t.lockedInOrders = s.lockedInOrders - http[oid].cost
                          /\ t.availableCash = s.availableCash + http[oid].cost]_vars

\* createOrder failed for one buy while the reservation of another request
\* stays locked
C22_Witness ==
    /\ last.op = "onOrderCancelled" /\ last.res = "ok"
    /\ http[last.oid].pc = "failed502" /\ http[last.oid].action = "buy"
    /\ states[last.sid].lockedInOrders > 0
    /\ \E other \in OrderIds : http[other].pc = "createOrder"

\* the capital of the buy requests of a strategy whose reservation was accepted
\* and not released
ReservedByRequests(requests, id) ==
    SumOver([oid \in OrderIds |->
                IF /\ requests[oid].sid = id /\ requests[oid].action = "buy"
                   /\ requests[oid].pc \in {"createOrder", "created201"}
                THEN requests[oid].cost ELSE 0],
            OrderIds)

\* C23: under any interleaving of the order-placement handler (suspended
\* between reserveForOrder and the result of createOrder), ticks, balance
\* updates, reloads and snapshot reads, no getSnapshot observes a partially
\* applied reservation: every step of the server that runs a buy reservation
\* applies both the availableCash debit and the lockedInOrders credit of
\* count * price, or neither; and a getSnapshot returns, for every strategy,
\* the availableCash and lockedInOrders of the ledger between two such steps,
\* with lockedInOrders equal to the capital of the accepted, unreleased buy
\* requests of the strategy.
C23_SnapshotSeesWholeReservations ==
    [][/\ (last'.op = "reserveForOrder" /\ last'.action = "buy"
           /\ last'.sid \in DOMAIN states)
            => LET s == states[last'.sid]
                   t == states'[last'.sid]
               IN \/ /\ last'.res = "ok"
                     /\ t.availableCash = s.availableCash - last'.cost
                     /\ t.lockedInOrders = s.lockedInOrders + last'.cost
                  \/ /\ last'.res # "ok"
                     /\ t.availableCash = s.availableCash
                     /\ t.lockedInOrders = s.lockedInOrders
       /\ last'.op = "getSnapshot"
            => /\ UNCHANGED ledgerVars
               /\ DOMAIN snap'.strategies = DOMAIN states
               /\ \A id \in DOMAIN states :
                    LET e == snap'.strategies[id]
                    IN /\ e.availableCash = states[id].availableCash
                       /\ e.lockedInOrders = states[id].lockedInOrders
                       /\ e.lockedInOrders = ReservedByRequests(http, id)]_vars

\* a snapshot is read while one request is suspended in createOrder and
\* another has not reserved yet
C23_Witness ==
    /\ last.op = "getSnapshot"
    /\ \E oid, other \in OrderIds :
        /\ http[oid].pc = "createOrder" /\ http[oid].action = "buy"
        /\ snap.strategies[http[oid].sid].lockedInOrders = http[oid].cost
        /\ snap.strategies[http[oid].sid].availableCash
            = snap.strategies[http[oid].sid].allocatedCash - http[oid].cost
        /\ http[other].pc = "body"

\* C24: reserveForOrder, onOrderFilled and onOrderCancelled applied to an order
\* of strategy A leave the state of every other strategy B (allocatedCash,
\* availableCash, lockedInOrders, positions, realizedPnl, unrealizedPnl, fees,
\* counters, status) unchanged.
C24_OtherStrategiesUntouched ==
    [][last'.op \in {"reserveForOrder", "onOrderFilled", "onOrderCancelled"}
       => /\ DOMAIN states' = DOMAIN states
          /\ \A b \in DOMAIN states \ {last'.sid} : states'[b] = states[b]]_vars

\* an order of one strategy is cancelled while the other strategy has capital
\* locked in an order of its own
C24_Witness ==
    /\ last.op = "onOrderCancelled" /\ last.res = "ok" /\ last.action = "buy"
    /\ \E b \in DOMAIN states \ {last.sid} :
        /\ states[b].lockedInOrders > 0
        /\ states[b].ordersCancelled = 0

\* the sum over the positions of (currentPrice - avgCostBasis) * quantity
MarkToMarket(positions) ==
    SumOver([t \in DOMAIN positions |->
                (positions[t].currentPrice - positions[t].avgCostBasis)
                * positions[t].quantity],
            DOMAIN positions)

\* C25: updatePrice(ticker, price) sets currentPrice to price on every open
\* position for that ticker in every strategy, changes no other position, and
\* afterwards every strategy's unrealizedPnl equals the sum over its positions
\* of (currentPrice - avgCostBasis) * quantity; it changes no cash field,
\* counter or order (nor totalCash or any config).
C25_UpdatePrice ==
    [][last'.op = "updatePrice"
       => /\ totalCash' = totalCash /\ configs' = configs /\ orders' = orders
          /\ DOMAIN states' = DOMAIN states
          /\ \A id \in DOMAIN states :
                LET s == states[id]
                    t == states'[id]
                IN /\ DOMAIN t.positions = DOMAIN s.positions
                   /\ \A tk \in DOMAIN s.positions :
                        t.positions[tk] =
                            IF tk = last'.ticker
                            THEN [s.positions[tk] EXCEPT !.currentPrice = last'.price]
                            ELSE s.positions[tk]
                   /\ t.unrealizedPnl = MarkToMarket(t.positions)
                   /\ t = [s EXCEPT !.positions = t.positions,
                                    !.unrealizedPnl = t.unrealizedPnl]]_vars

\* one strategy holds positions on both tickers; the marked one moves its
\* unrealizedPnl, the other keeps its price
C25_Witness ==
    /\ last.op = "updatePrice"
    /\ \E id \in DOMAIN states :
        /\ DOMAIN states[id].positions = PriceTickers
        /\ \A tk \in PriceTickers \ {last.ticker} :
                states[id].positions[tk].currentPrice # last.price
        /\ states[id].positions[last.ticker].currentPrice = last.price
        /\ states[id].positions[last.ticker].avgCostBasis # last.price
        /\ states[id].unrealizedPnl # 0

\* C26: getSnapshot returns totalCash, one entry per registered strategy
\* carrying the current config values (id, name, type, enabled, allocationPct)
\* and state values (cash fields, P&L, fees, counters, status, positions) of
\* that strategy, and unallocatedCash = totalCash - the sum of allocatedCash
\* over the registered strategies; the call changes no ledger state.
C26_GetSnapshot ==
    [][last'.op = "getSnapshot"
       => /\ UNCHANGED ledgerVars
          /\ snap'.totalCash = totalCash
          /\ DOMAIN snap'.strategies = DOMAIN configs
          /\ snap'.unallocatedCash
                + SumOver([id \in DOMAIN states |-> states[id].allocatedCash],
                          DOMAIN states) = totalCash
          /\ \A id \in DOMAIN configs :
                LET e == snap'.strategies[id]
                    c == configs[id]
                    st == states[id]
                IN /\ e.id = id /\ e.name = c.name /\ e.type = c.type
                   /\ e.enabled = c.enabled
                   /\ e.allocationPct = c.allocationPct
                   /\ e.allocatedCash = st.allocatedCash
                   /\ e.availableCash = st.availableCash
                   /\ e.lockedInOrders = st.lockedInOrders
                   /\ e.realizedPnl = st.realizedPnl
                   /\ e.unrealizedPnl = st.unrealizedPnl
                   /\ e.fees = st.fees
                   /\ e.ordersPlaced = st.ordersPlaced
                   /\ e.ordersFilled = st.ordersFilled
                   /\ e.ordersCancelled = st.ordersCancelled
                   /\ e.status = st.status
                   /\ e.positionCount = Cardinality(DOMAIN st.positions)
                   /\ DOMAIN e.positions = DOMAIN st.positions
                   /\ \A tk \in DOMAIN st.positions :
                        /\ e.positions[tk].ticker = tk
                        /\ e.positions[tk].side = st.positions[tk].side
                        /\ e.positions[tk].quantity = st.positions[tk].quantity
                        /\ e.positions[tk].avgCostBasis
                            = st.positions[tk].avgCostBasis
                        /\ e.positions[tk].currentPrice
                            = st.positions[tk].currentPrice]_vars

\* a snapshot of two strategies, one of them with a position and locked
\* capital, while part of the cash is unallocated
C26_Witness ==
    /\ last.op = "getSnapshot"
    /\ Cardinality(DOMAIN snap.strategies) = 2
    /\ snap.unallocatedCash > 0
    /\ \E id \in DOMAIN snap.strategies :
        /\ snap.strategies[id].positionCount = 1
        /\ snap.strategies[id].lockedInOrders > 0
        /\ snap.strategies[id].availableCash < snap.strategies[id].allocatedCash

\* C27: the order table lifecycle: a successful reserveForOrder inserts the
\* order under its orderId; onOrderCancelled of a tracked order removes it, for
\* buy and sell orders alike, and increments ordersCancelled; onOrderFilled
\* never removes it: the table is unchanged by a fill, and a fill or cancel
\* event for the same orderId that follows a fill is processed as a known
\* order.
C27_OrderTableLifecycle ==
    [][/\ (last'.op = "reserveForOrder" /\ last'.res = "ok")
            => /\ DOMAIN orders' = DOMAIN orders \cup {last'.oid}
               /\ orders'[last'.oid].strategyId = last'.sid
               /\ orders'[last'.oid].action = last'.action
               /\ \A o \in DOMAIN orders \ {last'.oid} : orders'[o] = orders[o]
       /\ (last'.op = "reserveForOrder" /\ last'.res # "ok")
            => orders' = orders
       /\ (last'.op = "onOrderCancelled" /\ last'.res = "ok")
            => /\ last'.oid \in DOMAIN orders
               /\ DOMAIN orders' = DOMAIN orders \ {last'.oid}
               /\ \A o \in DOMAIN orders' : orders'[o] = orders[o]
               /\ states'[last'.sid].ordersCancelled
                    = states[last'.sid].ordersCancelled + 1
       /\ last'.op = "onOrderFilled" => orders' = orders
       /\ (/\ last.op = "onOrderFilled" /\ last.res = "ok"
           /\ last'.op \in {"onOrderFilled", "onOrderCancelled"}
           /\ last'.oid = last.oid)
            => last'.res = "ok"]_vars

\* a sell order is cancelled after it was filled
C27_Witness ==
    /\ last.op = "onOrderCancelled" /\ last.res = "ok" /\ last.action = "sell"
    /\ last.oid \notin DOMAIN orders
    /\ states[last.sid].ordersPlaced = 1
    /\ states[last.sid].ordersFilled = 1
    /\ states[last.sid].ordersCancelled = 1

(***************************************************************************)
(* The worked scenario, one Hoare triple per step.  ScenarioAfterK is the  *)
(* ledger the scenario describes after its K-th call.                      *)
(***************************************************************************)
ScenarioFresh(id, allocatedCash) ==
    /\ id \in DOMAIN states
    /\ states[id].allocatedCash = allocatedCash
    /\ states[id].availableCash = allocatedCash
    /\ states[id].lockedInOrders = 0
    /\ states[id].positions = EmptyMap
    /\ states[id].realizedPnl = 0
    /\ states[id].unrealizedPnl = 0
    /\ states[id].fees = 0

ScenarioHeld(quantity, basis, price) ==
    /\ DOMAIN states["A"].positions = {"T1"}
    /\ states["A"].positions["T1"].side = "yes"
    /\ states["A"].positions["T1"].quantity = quantity
    /\ states["A"].positions["T1"].avgCostBasis = basis
    /\ states["A"].positions["T1"].currentPrice = price

ScenarioAfter1 ==
    /\ nCalls = 1
    /\ totalCash = 100000
    /\ DOMAIN configs = {"A"}
    /\ ScenarioFresh("A", 30000)
    /\ orders = EmptyMap

ScenarioAfter2 ==
    /\ nCalls = 2
    /\ totalCash = 100000
    /\ DOMAIN configs = {"A", "B"}
    /\ ScenarioFresh("A", 30000)
    /\ ScenarioFresh("B", 50000)
    /\ getSnapshot(Ledger).unallocatedCash = 20000
    /\ orders = EmptyMap

ScenarioAfter3 ==
    /\ nCalls = 3
    /\ last.res = "throw"
    /\ totalCash = 100000
    /\ DOMAIN configs = {"A", "B"}
    /\ DOMAIN states = {"A", "B"}
    /\ ScenarioFresh("A", 30000)
    /\ ScenarioFresh("B", 50000)
    /\ orders = EmptyMap

ScenarioAfter4 ==
    /\ nCalls = 4
    /\ last.res = "ok"
    /\ DOMAIN states = {"A", "B"}
    /\ states["A"].allocatedCash = 30000
    /\ states["A"].availableCash = 29500
    /\ states["A"].lockedInOrders = 500
    /\ states["A"].positions = EmptyMap
    /\ states["A"].realizedPnl = 0
    /\ states["A"].fees = 0
    /\ DOMAIN orders = {"o1"}
    /\ orders["o1"] = Tracked("A", ScenarioBuy)

ScenarioAfter5 ==
    /\ nCalls = 5
    /\ DOMAIN states = {"A", "B"}
    /\ states["A"].lockedInOrders = 0
    /\ states["A"].availableCash = 29550
    /\ ScenarioHeld(10, 45, 45)
    /\ states["A"].fees = 5
    /\ states["A"].realizedPnl = 0

ScenarioAfter6 ==
    /\ nCalls = 6
    /\ DOMAIN states = {"A", "B"}
    /\ states["A"].unrealizedPnl = 150
    /\ states["A"].lockedInOrders = 0
    /\ states["A"].availableCash = 29550
    /\ ScenarioHeld(10, 45, 60)
    /\ states["A"].realizedPnl = 0

ScenarioAfter7 ==
    /\ nCalls = 7
    /\ last.res = "ok"
    /\ DOMAIN states = {"A", "B"}
    /\ states["A"].lockedInOrders = 0
    /\ states["A"].availableCash = 29550
    /\ ScenarioHeld(10, 45, 60)
    /\ states["A"].realizedPnl = 0
    /\ "o2" \in DOMAIN orders
    /\ orders["o2"] = Tracked("A", ScenarioSell)

ScenarioAfter8 ==
    /\ nCalls = 8
    /\ DOMAIN states = {"A", "B"}
    /\ states["A"].realizedPnl = 250
    /\ states["A"].positions = EmptyMap
    /\ states["A"].availableCash = 29550 + 700

ScenarioAdds(id, pct) ==
    /\ last'.op = "addStrategy"
    /\ last'.sid = id
    /\ last'.pct = pct

ScenarioReserves(order) ==
    /\ last'.op = "reserveForOrder"
    /\ last'.sid = "A"
    /\ last'.oid = order.orderId
    /\ last'.action = order.action
    /\ last'.cost = order.count * order.price

ScenarioFillsOrder(oid, fillPrice, fillCount, fee) ==
    /\ last'.op = "onOrderFilled"
    /\ last'.oid = oid
    /\ last'.fillPrice = fillPrice
    /\ last'.fillCount = fillCount
    /\ last'.fee = fee

\* C28: the worked scenario holds step by step.  On a ledger of 100000,
\* adding A at 0.3 allocates 30000; adding B at 0.5 allocates 50000 and leaves
\* 20000 unallocated; adding C at 0.3 is rejected; reserving a buy of 10 at 50
\* on A leaves availableCash 29500 and lockedInOrders 500; filling it at 45 x 10
\* with fee 5 leaves lockedInOrders 0, availableCash 29550, a position of 10
\* at avgCostBasis 45 and fees 5; a mark at 60 gives unrealizedPnl 150; a full
\* sell of 10 at 70 gives realizedPnl 250, removes the position and adds 700
\* to availableCash.
C28_Scenario ==
    [][/\ (nCalls = 0 /\ ScenarioAdds("A", 3000)) => ScenarioAfter1'
       /\ (ScenarioAfter1 /\ ScenarioAdds("B", 5000)) => ScenarioAfter2'
       /\ (ScenarioAfter2 /\ ScenarioAdds("C", 3000)) => ScenarioAfter3'
       /\ (ScenarioAfter3 /\ ScenarioReserves(ScenarioBuy)) => ScenarioAfter4'
       /\ (ScenarioAfter4 /\ ScenarioFillsOrder("o1", 45, 10, 5)) => ScenarioAfter5'
       /\ (ScenarioAfter5 /\ last'.op = "updatePrice" /\ last'.price = 60)
              => ScenarioAfter6'
       /\ (ScenarioAfter6 /\ ScenarioReserves(ScenarioSell)) => ScenarioAfter7'
       /\ (ScenarioAfter7 /\ ScenarioFillsOrder("o2", 70, 10, 5)) => ScenarioAfter8'
      ]_vars

\* the scenario has run to its last step: the sell of 10 at 70 has been filled
C28_Witness ==
    /\ ScenarioAfter8
    /\ last.op = "onOrderFilled"
    /\ last.oid = "o2"
    /\ last.action = "sell"
    /\ last.res = "ok"
    /\ states["A"].fees = 10
    /\ states["A"].ordersFilled = 2

\* C29: in every reachable ledger state the ids that have a config are the
\* ids that have a state: addStrategy creates both, removeStrategy deletes
\* both, and no operation creates or deletes one without the other.
C29_ConfigsAndStatesKeyedTogether ==
    DOMAIN configs = DOMAIN states

\* a strategy has just been removed while another one stays registered
C29_Witness ==
    /\ last.op = "removeStrategy"
    /\ last.res = "ok"
    /\ last.sid \notin DOMAIN configs
    /\ last.sid \notin DOMAIN states
    /\ DOMAIN configs # {}
    /\ DOMAIN states # {}

\* C30: in every reachable ledger state every position present in a
\* strategy's positions map has quantity > 0: a position is removed as soon
\* as its quantity reaches zero, and no fill creates or leaves a position of
\* quantity 0 or less.
C30_PositionsArePositive ==
    \A id \in DOMAIN states :
        \A t \in DOMAIN states[id].positions :
            states[id].positions[t].quantity > 0

\* a sell fill has just sold out the position that the strategy's one buy
\* fill had opened, and the position is gone
C30_Witness ==
    /\ last.op = "onOrderFilled"
    /\ last.res = "ok"
    /\ last.action = "sell"
    /\ last.sid \in DOMAIN states
    /\ states[last.sid].ordersFilled = 2
    /\ states[last.sid].realizedPnl # 0
    /\ states[last.sid].positions = EmptyMap

\* C31: reserveForOrder for a sell on a registered strategy always succeeds,
\* whatever availableCash and the position held are: availableCash and
\* lockedInOrders stay as they were, ordersPlaced rises by one and the order
\* is in the order table; for an unknown strategy id it fails and changes
\* nothing.
C31_ReserveSell ==
    [][(/\ last'.op = "reserveForOrder"
        /\ last'.action = "sell")
       => IF last'.sid \in DOMAIN states
          THEN /\ last'.res = "ok"
               /\ states' = [states EXCEPT ![last'.sid].ordersPlaced = @ + 1]
               /\ DOMAIN orders' = DOMAIN orders \cup {last'.oid}
               /\ orders'[last'.oid].strategyId = last'.sid
               /\ orders'[last'.oid].action = "sell"
               /\ OrderCost(orders'[last'.oid]) = last'.cost
               /\ \A o \in DOMAIN orders \ {last'.oid} : orders'[o] = orders[o]
          ELSE /\ last'.res = "throw"
               /\ UNCHANGED ledgerVars]_vars

\* a sell was accepted on a strategy that holds no position and has less
\* available cash than count x price
C31_Witness ==
    /\ last.op = "reserveForOrder" /\ last.action = "sell" /\ last.res = "ok"
    /\ last.sid \in DOMAIN states
    /\ states[last.sid].positions = EmptyMap
    /\ states[last.sid].availableCash < last.cost
    /\ last.oid \in DOMAIN orders
    /\ orders[last.oid].action = "sell"

\* the sum of the allocationPct values of a desired list
DesiredPct(newConfigs) ==
    SumOver([i \in 1..Len(newConfigs) |-> newConfigs[i].allocationPct],
            1..Len(newConfigs))

\* the registered strategies that the desired list leaves out are quiescent
AbsentAreQuiescent(newConfigs) ==
    \A id \in DOMAIN configs \ IdsOf(newConfigs) :
        /\ states[id].positions = EmptyMap
        /\ states[id].lockedInOrders = 0

\* the ledger after the step matches the desired list
MatchesDesired(newConfigs) ==
    /\ DOMAIN configs' = IdsOf(newConfigs)
    /\ \A i \in 1..Len(newConfigs) :
        newConfigs[i].id \in DOMAIN configs' =>
            LET config == configs'[newConfigs[i].id]
            IN /\ config.allocationPct = newConfigs[i].allocationPct
               /\ config.enabled = newConfigs[i].enabled
               /\ config.name = newConfigs[i].name
               /\ config.type = newConfigs[i].type
               /\ config.params = newConfigs[i].params

\* C32: if the desired list has distinct ids, its allocationPct values sum
\* to at most 1, and every registered strategy absent from it is quiescent (no
\* positions, lockedInOrders = 0), then after one reconciliation pass the
\* registered ids are exactly the desired ids and each registered config has
\* the desired allocationPct, enabled, name, type and params.
C32_PassReconciles ==
    [][(/\ last'.op = "reloadStrategies"
        /\ DistinctIds(file)
        /\ DesiredPct(file) <= PctScale
        /\ AbsentAreQuiescent(file))
       => MatchesDesired(file)]_vars

\* a pass that made every call it had to make, none of them refused, reaches
\* the desired list
PassWithoutRefusalReconciles ==
    [][(/\ last'.op = "reloadStrategies"
        /\ DistinctIds(file)
        /\ last'.res = "ok"
        /\ \A k \in 1..Len(last'.calls) : last'.calls[k].res = "ok")
       => MatchesDesired(file)]_vars

\* C33: the buy lifecycle creates no cash.  In any sequence of buy
\* reservations, fills (each of at most the order's count, at no more than the
\* reserved price) and cancellations, with no sell, reallocate or
\* updateTotalCash, every strategy has availableCash + lockedInOrders <=
\* allocatedCash, also when a cancellation follows a fill of the order or a
\* fill is delivered twice.
C33_NoCashCreated ==
    \A id \in DOMAIN states :
        states[id].availableCash + states[id].lockedInOrders
            <= states[id].allocatedCash

\* reservations and cancellations alone create no cash
NoCashCreatedWithoutFills ==
    (\A id \in DOMAIN states : states[id].ordersFilled = 0) => C33_NoCashCreated

\* C34: in every reachable ledger state every order of the order table
\* belongs to a strategy that is still registered, so that onOrderFilled and
\* onOrderCancelled for a tracked order never fail for want of the strategy,
\* also after removeStrategy of a strategy that has filled orders or pending
\* sell orders in the table.
C34_OrdersOfRegisteredStrategies ==
    \A oid \in DOMAIN orders : orders[oid].strategyId \in DOMAIN states

\* an event for a tracked order never throws
TrackedOrderEventsFindTheStrategy ==
    [][(/\ last'.op \in {"onOrderFilled", "onOrderCancelled"}
        /\ last'.oid \in DOMAIN orders)
       => last'.res # "throw"]_vars

\* count x price summed over the buy orders of a strategy in the order table
TrackedBuyCost(id) ==
    LET mine == {oid \in DOMAIN orders :
                    /\ orders[oid].strategyId = id
                    /\ orders[oid].action = "buy"}
    IN SumOver([oid \in mine |-> OrderCost(orders[oid])], mine)

\* C35: in any sequence of reserveForOrder and onOrderCancelled calls with
\* caller-supplied orderIds and no fills, each strategy's lockedInOrders is
\* the sum of count x price over its buy orders in the order table, also when
\* reserveForOrder is called with an orderId that is already in the table.
C35_LockedIsTrackedBuyCost ==
    \A id \in DOMAIN states : states[id].lockedInOrders = TrackedBuyCost(id)

\* the same while every reservation came with an orderId not in the table
LockedIsTrackedBuyCostOfFreshIds ==
    [][(last'.op = "reserveForOrder" => last'.oid \notin DOMAIN orders)
       => (C35_LockedIsTrackedBuyCost => C35_LockedIsTrackedBuyCost')]_vars

\* C36: for an order placed through POST /api/strategies/{id}/orders, which
\* the ledger tracks under a server-generated orderId distinct from the
\* exchange's order id, a DELETE /api/orders/{orderId} request whose exchange
\* cancellation succeeds releases the order's reserved capital in the ledger
\* (availableCash is credited and lockedInOrders reduced by count x price);
\* when the exchange cancellation fails the ledger is unchanged.
C36_DeleteReleasesReservation ==
    [][\A oid \in OrderIds :
        /\ (/\ http[oid].pc = "cancelOrder"
            /\ http'[oid].pc = "cancelled200"
            /\ http[oid].action = "buy")
           => LET id == http[oid].sid
              IN /\ states'[id].availableCash =
                        states[id].availableCash + http[oid].cost
                 /\ states'[id].lockedInOrders =
                        states[id].lockedInOrders - http[oid].cost
        /\ (/\ http[oid].pc = "cancelOrder"
            /\ http'[oid].pc = "cancelFailed502")
           => UNCHANGED ledgerVars]_vars

\* a failed exchange cancellation leaves the ledger as it was
FailedDeleteChangesNothing ==
    [][\A oid \in OrderIds :
        (http[oid].pc = "cancelOrder" /\ http'[oid].pc = "cancelFailed502")
        => UNCHANGED ledgerVars]_vars

\* C37: in every reachable ledger state, and so in every snapshot, each
\* strategy's unrealizedPnl is the sum over its current positions of
\* (currentPrice - avgCostBasis) x quantity, also after a fill that changes a
\* position's quantity or cost basis or removes the position, not only right
\* after updatePrice.
C37_UnrealizedIsMarkToMarket ==
    \A id \in DOMAIN states :
        states[id].unrealizedPnl = MarkToMarket(states[id].positions)

\* the equality holds right after updatePrice
UnrealizedIsMarkToMarketAfterUpdatePrice ==
    last.op = "updatePrice" => C37_UnrealizedIsMarkToMarket

\* the sum of allocatedCash over the registered strategies
AllocatedTotal ==
    SumOver([id \in DOMAIN states |-> states[id].allocatedCash], DOMAIN states)

AllocatedWithinTotalUpToOne ==
    (totalCash >= 0 /\ totalAllocationPct(Ledger) <= PctScale) =>
        /\ AllocatedTotal <= totalCash
        /\ getSnapshot(Ledger).unallocatedCash >= 0

\* C39: no ledger operation sets a strategy's status to active or error, and
\* under the ledger operations alone (addStrategy, updateStrategyConfig,
\* reconciliation) every registered strategy is paused if and only if its
\* config has enabled = false, and idle otherwise.
C39_StatusFollowsEnabled ==
    \A id \in DOMAIN states :
        /\ states[id].status \in {"idle", "paused"}
        /\ states[id].status = "paused" <=> ~configs[id].enabled
        /\ states[id].status = "idle" <=> configs[id].enabled

\* a strategy registered disabled has been enabled again by
\* updateStrategyConfig and is idle
C39_Witness ==
    /\ last.op = "updateStrategyConfig"
    /\ last.res = "ok"
    /\ "enabled" \in last.partial.keys
    /\ last.partial.enabled
    /\ last.sid \in DOMAIN states
    /\ configs[last.sid].name = "n2"
    /\ configs[last.sid].enabled
    /\ states[last.sid].status = "idle"

\* C40: after disconnect() is called on the WebSocket client no new
\* connection attempt is made until connect() is called again explicitly, in
\* particular when disconnect() is called while the client is reconnecting
\* with a reconnect timer already scheduled, and when the socket's close event
\* arrives after disconnect().
C40_NoAttemptAfterDisconnect ==
    [][(sock.released /\ last'.op # "connect")
       => Len(sock'.sockets) = Len(sock.sockets)]_vars

\* while the mark that disconnect() leaves in reconnectAttempt stands, a close
\* event schedules no reconnect and makes no socket
CloseAfterDisconnectSchedulesNothing ==
    [][(sock.released /\ sock.reconnectAttempt < 0 /\ last'.op = "close")
       => /\ sock'.timers = sock.timers
          /\ Len(sock'.sockets) = Len(sock.sockets)
          /\ sock'.state = "disconnected"]_vars

==========================================================================
